---- MODULE Spec2Model ----
(***************************************************************************)
(* Call-resilience helpers of the SDK documentation: the retry wrapper     *)
(* RetryableVantigeClient and the circuit breaker CircuitBreakerClient     *)
(* (error-handling examples).  Each helper wraps an inner client whose     *)
(* query either returns a response or throws an error.                     *)
(*                                                                         *)
(* Each helper has its own specification (SpecRetry, SpecBreaker); while   *)
(* one helper runs, the variables of the other keep their initial values.  *)
(***************************************************************************)
EXTENDS Integers, Sequences, FiniteSets, TLC

VARIABLES
    \* ---- RetryableVantigeClient.query, one call ----
    opts,           \* the merged options of the call ({...defaultOptions, ...options})
    rPc,            \* "idle" | "awaiting" (inner query pending) | "sleeping" | "done"
    attempt,        \* the loop variable
    lastError,      \* the local lastError
    rDelay,         \* the delay handed to the last sleep(delay)
    rOutcome,       \* what the caller received
    rInvocations,   \* history: number of this.client.query calls made
    rFailures,      \* history: number of them that threw
    rSleeps,        \* history: number of sleep(delay) calls made
    rEv,            \* history: the step just taken
    \* ---- CircuitBreakerClient ----
    cbOptions,      \* options: failureThreshold, resetTimeout
    cb,             \* the fields state, failures, lastFailureTime, successCount
    now,            \* Date.now()
    cbInflight,     \* calls whose inner query is pending
    cbInner,        \* history: number of this.client.query calls made
    cbStreak,       \* history: failures completed since the last completed success
    cbPlain,        \* history: so far the calls were made one after the other,
                    \* none succeeded and none was let through from OPEN
    cbEv,           \* history: the step just taken
    cbPrev,         \* history: the fields before the step just taken
    cbReported,     \* history: what the step just taken returned, if it was getState()
    \* ---- CachedVantigeClient ----
    cache,          \* the Map cache: its entries in insertion order
    cacheNow,       \* Date.now(), in milliseconds
    cPending,       \* the calls whose inner query is pending: [key, id], id the call's number
    cCalls,         \* history: number of query calls made
    cEv,            \* history: the step just taken
    cKey,           \* history: the cache key of the step just taken
    cOutcome,       \* history: what the step just taken returned or threw
    cPrev,          \* history: the cache before the step just taken
    cLastStore,     \* history: per key, when a response was last stored for it
    kParams,        \* getCacheKey: the two params objects given to it
    kKeys,          \* getCacheKey: the strings it returned, << >> before the calls
    \* ---- MonitoredVantigeClient ----
    mWindowSize,    \* this.windowSize
    mRequests,      \* this.requests
    metrics,        \* this.metrics
    mCallbacks,     \* this.errorCallbacks: what each callback does when called
    mPending,       \* the numbers of the calls whose inner query is pending
    mCompleted,     \* history: number of calls that returned or threw
    mFailed,        \* history: number of calls that threw
    mEv,            \* history: the step just taken
    mOutcome,       \* history: what the step just taken returned or threw
    mNotified,      \* history: the callbacks called in the step just taken
    mCaught,        \* history: the callbacks whose throw was caught and logged in it
    mInner,         \* history: what the inner query returned or threw in it
    mPrev,          \* history: this.metrics before the step just taken
    mHealth,        \* history: what it returned, if it was getHealthStatus()
    \* ---- the clients wired together, one call at a time ----
    chPc,           \* "idle" | "awaiting" (base query pending) | "sleeping" | "done"
    chParams,       \* the params of the call
    chCalls,        \* history: number of calls made
    chBase,         \* history: number of base queries made by the call
    chOutcome,      \* what the caller received
    chTrace,        \* history: the clients the call has entered, in order
    chPassed,       \* history: what each client of the call got and gave, in order
    chPrev,         \* history: counters of breaker and monitor before the call
    \* ---- BatchQueryProcessor, one batchQuery() ----
    bPc,            \* "idle" | "awaiting" (Promise.allSettled pending) | "done"
    bQueries,       \* the queries argument
    bI,             \* the loop variable i
    bBatch,         \* the calls of the batch awaited, in the order of promises
    bResults,       \* the Map results: query text -> response
    bReturn,        \* what batchQuery() returned or threw
    bCalls,         \* history: the calls of this.client.query, in order
    \* ---- RetryableClient (Retry Strategy of the error reference), one call ----
    qwPc,           \* "idle" | "awaiting" | "sleeping" | "done"
    qwAttempt,      \* the loop variable attempt
    qwLastError,    \* lastError
    qwDelay,        \* the delay slept, in ms
    qwOutcome,      \* what queryWithRetry() returned or threw
    qwInvocations,  \* history: number of this.client.query calls
    qwSleeps,       \* history: number of this.sleep calls
    \* ---- ResilientSearchClient, one searchWithFallback() ----
    sfPc,           \* "idle" | "awaiting" (a client query pending) | "done"
    sfHasCache,     \* whether cacheClient was given to the constructor
    sfQuery,        \* the query argument, as its words
    sfTried,        \* history: the strategies called, in order, and how each ended
    sfSent,         \* history: the client queries made, in order
    sfResult        \* what searchWithFallback() returned or threw

retryVars == <<opts, rPc, attempt, lastError, rDelay, rOutcome,
               rInvocations, rFailures, rSleeps, rEv>>
breakerVars == <<cbOptions, cb, now, cbInflight, cbInner, cbStreak, cbPlain, cbEv,
                 cbPrev, cbReported>>
cacheVars == <<cache, cacheNow, cPending, cCalls, cEv, cKey, cOutcome, cPrev, cLastStore>>
keyVars == <<kParams, kKeys>>
monitorVars == <<mWindowSize, mRequests, metrics, mCallbacks, mPending, mCompleted,
                 mFailed, mEv, mOutcome, mNotified, mCaught, mInner, mPrev, mHealth>>
chainVars == <<chPc, chParams, chCalls, chBase, chOutcome, chTrace, chPassed, chPrev>>
batchVars == <<bPc, bQueries, bI, bBatch, bResults, bReturn, bCalls>>
retryableVars == <<qwPc, qwAttempt, qwLastError, qwDelay, qwOutcome, qwInvocations, qwSleeps>>
resilientVars == <<sfPc, sfHasCache, sfQuery, sfTried, sfSent, sfResult>>
vars == <<retryVars, breakerVars, cacheVars, keyVars, monitorVars, chainVars, batchVars,
          retryableVars, resilientVars>>

\* what a step of one helper leaves alone: the variables of the others
outsideRetry == <<breakerVars, cacheVars, keyVars, monitorVars, chainVars, batchVars,
    retryableVars, resilientVars>>
outsideBreaker == <<retryVars, cacheVars, keyVars, monitorVars, chainVars, batchVars,
    retryableVars, resilientVars>>
outsideCache == <<retryVars, breakerVars, keyVars, monitorVars, chainVars, batchVars,
    retryableVars, resilientVars>>
outsideKey == <<retryVars, breakerVars, cacheVars, monitorVars, chainVars, batchVars,
    retryableVars, resilientVars>>
outsideMonitor == <<retryVars, breakerVars, cacheVars, keyVars, chainVars, batchVars,
    retryableVars, resilientVars>>
\* in the wired clients: the options, and the history of the single helpers
outsideChain == <<opts, rPc, rOutcome, rInvocations, rFailures, rSleeps, rEv,
                  cbOptions, cbInflight, cbInner, cbStreak, cbPlain, cbEv, cbPrev,
                  cbReported, cPending, cCalls, cEv, cKey, cOutcome, cPrev, cLastStore,
                  keyVars, mWindowSize, mCallbacks, mPending, mCompleted, mFailed, mEv,
                  mOutcome, mNotified, mCaught, mInner, mPrev, mHealth, batchVars,
                  retryableVars, resilientVars>>
outsideBatch == <<retryVars, breakerVars, cacheVars, keyVars, monitorVars, chainVars,
                  retryableVars, resilientVars>>
outsideResilient == <<retryVars, breakerVars, cacheVars, keyVars, monitorVars, chainVars,
                      batchVars, retryableVars>>
outsideRetryable == <<retryVars, breakerVars, cacheVars, keyVars, monitorVars, chainVars,
                      batchVars, resilientVars>>

-----------------------------------------------------------------------------
(* Bounds of the model *)

\* largest maxRetries option explored
MaxRetriesBound == 3
\* Math.random() is drawn from {0/JitterSteps, ..., (JitterSteps-1)/JitterSteps}
JitterSteps == 4
\* largest failureThreshold option explored
MaxThreshold == 3
\* largest resetTimeout option explored, in clock ticks
MaxResetTimeout == 2
\* the clock runs from 0 to MaxTime
MaxTime == 4
\* calls of the breaker that reach the inner client
MaxInner == 6
\* calls of the breaker that may be pending at once
MaxInflight == 2
\* maxCacheSize (100 in the source), scaled down
MaxCacheSize == 2
\* calls of CachedVantigeClient.query
MaxCacheCalls == 4
\* characters of a query text
MaxQueryLen == 2
\* calls of MonitoredVantigeClient.query
MaxMonitorCalls == 3
\* callbacks registered with onError
MaxCallbacks == 2
\* errors counted before getHealthStatus is asked
MaxHealthErrors == 12
\* calls of the wired clients
MaxChainCalls == 3
\* length of the list passed to batchQuery
MaxQueries == 6

-----------------------------------------------------------------------------
(* Errors and responses of the inner client *)

\* HTTP codes the inner client throws as VantigeSDKError
SdkCodes == {400, 429, 500, 503}

\* details.retryAfter of a VantigeSDKError of code c, in seconds, as the error
\* reference shows it (429: 60, 503: 30, no such field on 400 and 500);
\* << >> when the field is absent
RetryAfterHints(c) ==
    IF c = 429 THEN {<< >>, <<60>>}
    ELSE IF c = 503 THEN {<< >>, <<30>>}
    ELSE {<< >>}

\* error.code of an error that is not a VantigeSDKError ("none": no code)
SysCodes == {"ECONNRESET", "ETIMEDOUT", "ENOTFOUND", "none"}

\* The errors the id-th inner invocation can throw.  id tells the error
\* objects of different invocations apart (message, details, identity).
InnerErrors(id) ==
    UNION {{[kind |-> "sdk", code |-> c, sys |-> "", retryAfter |-> h, id |-> id] :
                h \in RetryAfterHints(c)} : c \in SdkCodes}
    \cup
    {[kind |-> "other", code |-> 0, sys |-> s, retryAfter |-> << >>, id |-> id] :
        s \in SysCodes}

\* let lastError: Error | undefined
NoError == [kind |-> "none", code |-> 0, sys |-> "", retryAfter |-> << >>, id |-> 0]

\* new Error('All retries failed')
SummaryError == [kind |-> "summary", code |-> 0, sys |-> "", retryAfter |-> << >>, id |-> 0]

Pending == [type |-> "pending", error |-> NoError, response |-> 0]
Returned(id) == [type |-> "response", error |-> NoError, response |-> id]
Thrown(e) == [type |-> "error", error |-> e, response |-> 0]

-----------------------------------------------------------------------------
(* RetryableVantigeClient *)

\* (maxRetries: 3 is within 0..MaxRetriesBound)
DefaultInitialDelay == 1000
DefaultMaxDelay == 30000
\* backoffMultiplier: 2, as the fraction 2/1
DefaultBackoffMultiplier == <<2, 1>>
DefaultRetryableErrors == {429, 500, 502, 503, 504}

\* The options of a call: the defaults overridden by the constructor's and the
\* call's RetryOptions.  backoffMultiplier is a fraction <<numerator, denominator>>.
RetryOptionSets ==
    [maxRetries : 0..MaxRetriesBound,
     initialDelay : {DefaultInitialDelay, 250},
     maxDelay : {DefaultMaxDelay, 400},
     backoffMultiplier : {DefaultBackoffMultiplier, <<3, 2>>},
     retryableErrors : {DefaultRetryableErrors, {429, 500}}]

RECURSIVE Pow(_, _)
Pow(b, n) == IF n = 0 THEN 1 ELSE b * Pow(b, n - 1)

\* JavaScript truthiness of error.details?.retryAfter
Truthy(hint) == hint # << >> /\ hint[1] # 0

\* variant: every error is retried
IsRetryableAlways(error, retryableErrors) == TRUE

\* variant: only VantigeSDKError instances are retried
IsRetryableSdkOnly(error, retryableErrors) ==
    error.kind = "sdk" /\ error.code \in retryableErrors

IsRetryable(error, retryableErrors) ==
    IF error.kind # "sdk"
    THEN error.sys = "ECONNRESET" \/ error.sys = "ETIMEDOUT" \/ error.sys = "ENOTFOUND"
    ELSE error.code \in retryableErrors

\* variant: the Math.min with maxDelay is missing
ExponentialDelayUncapped(att, options) ==
    <<options.initialDelay * Pow(options.backoffMultiplier[1], att),
      Pow(options.backoffMultiplier[2], att)>>

\* Math.min(initialDelay * Math.pow(backoffMultiplier, attempt), maxDelay),
\* as a fraction <<numerator, denominator>>
ExponentialDelay(att, options) ==
    LET n == options.initialDelay * Pow(options.backoffMultiplier[1], att)
        d == Pow(options.backoffMultiplier[2], att)
    IN  IF n <= options.maxDelay * d THEN <<n, d>> ELSE <<options.maxDelay, 1>>

\* rnd stands for Math.random() = rnd / JitterSteps
CalculateDelay(att, error, options, rnd) ==
    IF error.kind = "sdk" /\ error.code = 429 /\ Truthy(error.retryAfter)
    THEN error.retryAfter[1] * 1000
    ELSE LET e == ExponentialDelay(att, options)
         IN  \* Math.floor(e + rnd/JitterSteps * 0.3 * e)
             (e[1] * (10 * JitterSteps + 3 * rnd)) \div (e[2] * 10 * JitterSteps)

\* variant: attempt < opts.maxRetries
LoopContinuesStrict(att, options) == att < options.maxRetries

\* the loop condition: attempt <= opts.maxRetries
LoopContinues(att, options) == att <= options.maxRetries

\* variant: the loop is left one attempt early
IsLastAttemptEarly(att, options) == att + 1 >= options.maxRetries

\* variant: the break comes one attempt late
IsLastAttemptLate(att, options) == att = options.maxRetries + 1

\* if (attempt === opts.maxRetries) break
IsLastAttempt(att, options) == att = options.maxRetries

\* variant: the summary error replaces lastError
ThrowSummary(err) == SummaryError

\* throw lastError || new Error('All retries failed')
ThrowAfterLoop(err) == IF err.kind # "none" THEN err ELSE SummaryError

RetryIdle ==
    /\ rPc = "idle"
    /\ attempt = 0
    /\ lastError = NoError
    /\ rDelay = 0
    /\ rOutcome = Pending
    /\ rInvocations = 0
    /\ rFailures = 0
    /\ rSleeps = 0
    /\ rEv = "none"

\* query() is called: attempt = 0 and the first pass through the loop
RetryQuery ==
    /\ UNCHANGED outsideRetry
    /\ rPc = "idle"
    /\ attempt' = 0
    /\ rEv' = "call"
    /\ IF LoopContinues(0, opts)
       THEN /\ rPc' = "awaiting"
            /\ rInvocations' = rInvocations + 1
            /\ rOutcome' = rOutcome
       ELSE /\ rPc' = "done"
            /\ rInvocations' = rInvocations
            /\ rOutcome' = Thrown(ThrowAfterLoop(lastError))
    /\ UNCHANGED <<opts, lastError, rDelay, rFailures, rSleeps>>

\* return await this.client.query(params)
RetryInnerSucceeds ==
    /\ UNCHANGED outsideRetry
    /\ rPc = "awaiting"
    /\ rPc' = "done"
    /\ rOutcome' = Returned(rInvocations)
    /\ rEv' = "succeed"
    /\ UNCHANGED <<opts, attempt, lastError, rDelay, rInvocations, rFailures, rSleeps>>

\* the catch block, for the error the pending inner query throws
RetryInnerFails ==
    /\ UNCHANGED outsideRetry
    /\ rPc = "awaiting"
    /\ \E error \in InnerErrors(rInvocations), rnd \in 0..(JitterSteps - 1) :
        /\ lastError' = error
        /\ rFailures' = rFailures + 1
        /\ rEv' = "fail"
        /\ IF ~IsRetryable(error, opts.retryableErrors)
           THEN /\ rPc' = "done"
                /\ rOutcome' = Thrown(error)
                /\ UNCHANGED <<rDelay, rSleeps>>
           ELSE IF IsLastAttempt(attempt, opts)
           THEN /\ rPc' = "done"
                /\ rOutcome' = Thrown(ThrowAfterLoop(lastError'))
                /\ UNCHANGED <<rDelay, rSleeps>>
           ELSE /\ rPc' = "sleeping"
                /\ rDelay' = CalculateDelay(attempt, error, opts, rnd)
                /\ rSleeps' = rSleeps + 1
                /\ rOutcome' = rOutcome
    /\ UNCHANGED <<opts, attempt, rInvocations>>

\* sleep(delay) resolves: attempt++ and the next pass through the loop
RetryWake ==
    /\ UNCHANGED outsideRetry
    /\ rPc = "sleeping"
    /\ attempt' = attempt + 1
    /\ rEv' = "wake"
    /\ IF LoopContinues(attempt + 1, opts)
       THEN /\ rPc' = "awaiting"
            /\ rInvocations' = rInvocations + 1
            /\ rOutcome' = rOutcome
       ELSE /\ rPc' = "done"
            /\ rInvocations' = rInvocations
            /\ rOutcome' = Thrown(ThrowAfterLoop(lastError))
    /\ UNCHANGED <<opts, lastError, rDelay, rFailures, rSleeps>>

RetryInit == opts \in RetryOptionSets /\ RetryIdle

RetryNext == RetryQuery \/ RetryInnerSucceeds \/ RetryInnerFails \/ RetryWake

-----------------------------------------------------------------------------
(* CircuitBreakerClient *)

\* if (this.successCount >= 3)
SuccessThreshold == 3

BreakerOptionSets ==
    [failureThreshold : 1..MaxThreshold, resetTimeout : 1..MaxResetTimeout]

\* state = CLOSED, failures = 0, lastFailureTime undefined (<< >>), successCount = 0
BreakerFields ==
    [state |-> "CLOSED", failures |-> 0, lastFailureTime |-> << >>, successCount |-> 0]

\* variant: > instead of >=
ShouldAttemptResetStrict(c, t, options) ==
    /\ c.lastFailureTime # << >>
    /\ t - c.lastFailureTime[1] > options.resetTimeout

ShouldAttemptReset(c, t, options) ==
    /\ c.lastFailureTime # << >>
    /\ t - c.lastFailureTime[1] >= options.resetTimeout

\* variant: > instead of >= in the comparison of successCount
OnSuccessLate(c) ==
    LET c1 == [c EXCEPT !.failures = 0]
    IN  IF c1.state = "HALF_OPEN"
        THEN LET c2 == [c1 EXCEPT !.successCount = @ + 1]
             IN  IF c2.successCount > SuccessThreshold
                 THEN [c2 EXCEPT !.state = "CLOSED", !.successCount = 0]
                 ELSE c2
        ELSE c1

\* variant: failures is reset only when the circuit closes
OnSuccessKeepsFailures(c) ==
    IF c.state = "HALF_OPEN"
    THEN LET c2 == [c EXCEPT !.successCount = @ + 1]
         IN  IF c2.successCount >= SuccessThreshold
             THEN [c2 EXCEPT !.state = "CLOSED", !.successCount = 0, !.failures = 0]
             ELSE c2
    ELSE c

OnSuccess(c) ==
    LET c1 == [c EXCEPT !.failures = 0]
    IN  IF c1.state = "HALF_OPEN"
        THEN LET c2 == [c1 EXCEPT !.successCount = @ + 1]
             IN  IF c2.successCount >= SuccessThreshold
                 THEN [c2 EXCEPT !.state = "CLOSED", !.successCount = 0]
                 ELSE c2
        ELSE c1

\* variant: this.successCount = 0 is missing
OnFailureKeepsSuccessCount(c, t, options) ==
    LET c1 == [c EXCEPT !.lastFailureTime = <<t>>]
    IN  IF c1.state = "HALF_OPEN"
        THEN [c1 EXCEPT !.state = "OPEN"]
        ELSE LET c2 == [c1 EXCEPT !.failures = @ + 1]
             IN  IF c2.failures >= options.failureThreshold
                 THEN [c2 EXCEPT !.state = "OPEN"]
                 ELSE c2

\* variant: a failure in HALF_OPEN is counted like one in CLOSED
OnFailureCountsInHalfOpen(c, t, options) ==
    LET c1 == [c EXCEPT !.lastFailureTime = <<t>>, !.successCount = 0,
                        !.failures = @ + 1]
    IN  IF c1.failures >= options.failureThreshold
        THEN [c1 EXCEPT !.state = "OPEN"]
        ELSE c1

\* variant: > instead of >= in the comparison with failureThreshold
OnFailureStrict(c, t, options) ==
    LET c1 == [c EXCEPT !.lastFailureTime = <<t>>, !.successCount = 0]
    IN  IF c1.state = "HALF_OPEN"
        THEN [c1 EXCEPT !.state = "OPEN"]
        ELSE LET c2 == [c1 EXCEPT !.failures = @ + 1]
             IN  IF c2.failures > options.failureThreshold
                 THEN [c2 EXCEPT !.state = "OPEN"]
                 ELSE c2

OnFailure(c, t, options) ==
    LET c1 == [c EXCEPT !.lastFailureTime = <<t>>, !.successCount = 0]
    IN  IF c1.state = "HALF_OPEN"
        THEN [c1 EXCEPT !.state = "OPEN"]
        ELSE LET c2 == [c1 EXCEPT !.failures = @ + 1]
             IN  IF c2.failures >= options.failureThreshold
                 THEN [c2 EXCEPT !.state = "OPEN"]
                 ELSE c2

\* variant: a rejected call counts as a failure at time t
RejectRestartsTimeout(c, t) == [c EXCEPT !.lastFailureTime = <<t>>]

\* the fields after a call rejected in OPEN: the throw is the only statement
\* of the branch
RejectEffect(c, t) == c

\* no getState() result
NoReport == [state |-> "none", failures |-> 0]

\* variant: getState() applies the pending move from OPEN to HALF_OPEN
GetStateLazyReset(c, t, options) ==
    IF c.state = "OPEN" /\ ShouldAttemptReset(c, t, options)
    THEN [c EXCEPT !.state = "HALF_OPEN"]
    ELSE c

\* the fields after getState(): it assigns none of them
GetStateEffect(c, t, options) == c

\* return { state: this.state, failures: this.failures }
GetStateResult(c) == [state |-> c.state, failures |-> c.failures]

BreakerIdle ==
    /\ cb = BreakerFields
    /\ cbPrev = BreakerFields
    /\ cbReported = NoReport
    /\ now = 0
    /\ cbInflight = 0
    /\ cbInner = 0
    /\ cbStreak = 0
    /\ cbPlain = TRUE
    /\ cbEv = "none"

\* query() up to its await: the check of the circuit state, then either the
\* rejection or the call of this.client.query
BreakerQuery ==
    /\ UNCHANGED outsideBreaker
    /\ IF cb.state = "OPEN" /\ ~ShouldAttemptReset(cb, now, cbOptions)
       THEN \* throw new Error('Circuit breaker is OPEN - service unavailable')
            /\ cbEv' = "reject"
            /\ cbPrev' = cb
            /\ cbReported' = NoReport
            /\ cb' = RejectEffect(cb, now)
            /\ UNCHANGED <<cbOptions, now, cbInflight, cbInner, cbStreak, cbPlain>>
       ELSE /\ cbInner < MaxInner
            /\ cbInflight < MaxInflight
            /\ cb' = IF cb.state = "OPEN" THEN [cb EXCEPT !.state = "HALF_OPEN"] ELSE cb
            /\ cbInflight' = cbInflight + 1
            /\ cbInner' = cbInner + 1
            /\ cbPlain' = (cbPlain /\ cbInflight = 0 /\ cb.state # "OPEN")
            /\ cbEv' = "start"
            /\ cbPrev' = cb
            /\ cbReported' = NoReport
            /\ UNCHANGED <<cbOptions, now, cbStreak>>

\* a pending inner query returns: onSuccess(), return response
BreakerInnerSucceeds ==
    /\ UNCHANGED outsideBreaker
    /\ cbInflight > 0
    /\ cb' = OnSuccess(cb)
    /\ cbInflight' = cbInflight - 1
    /\ cbStreak' = 0
    /\ cbPlain' = FALSE
    /\ cbEv' = "success"
    /\ cbPrev' = cb
    /\ cbReported' = NoReport
    /\ UNCHANGED <<cbOptions, now, cbInner>>

\* a pending inner query throws: onFailure(error), throw error
BreakerInnerFails ==
    /\ UNCHANGED outsideBreaker
    /\ cbInflight > 0
    /\ cb' = OnFailure(cb, now, cbOptions)
    /\ cbInflight' = cbInflight - 1
    /\ cbStreak' = cbStreak + 1
    /\ cbEv' = "failure"
    /\ cbPrev' = cb
    /\ cbReported' = NoReport
    /\ UNCHANGED <<cbOptions, now, cbInner, cbPlain>>

\* Date.now() advances
Tick ==
    /\ UNCHANGED outsideBreaker
    /\ now < MaxTime
    /\ now' = now + 1
    /\ cbEv' = "tick"
    /\ cbPrev' = cb
    /\ cbReported' = NoReport
    /\ UNCHANGED <<cbOptions, cb, cbInflight, cbInner, cbStreak, cbPlain>>

\* getState()
BreakerGetState ==
    /\ UNCHANGED outsideBreaker
    /\ cb' = GetStateEffect(cb, now, cbOptions)
    /\ cbReported' = GetStateResult(cb')
    /\ cbEv' = "getState"
    /\ cbPrev' = cb
    /\ UNCHANGED <<cbOptions, now, cbInflight, cbInner, cbStreak, cbPlain>>

BreakerInit == cbOptions \in BreakerOptionSets /\ BreakerIdle

BreakerNext ==
    \/ BreakerQuery
    \/ BreakerInnerSucceeds
    \/ BreakerInnerFails
    \/ BreakerGetState
    \/ Tick

-----------------------------------------------------------------------------
(* CachedVantigeClient *)

\* cacheTimeout
CacheTimeout == 5 * 60 * 1000

\* the factor of entry.hits in the score of findLRUKey
HitWeight == 10000

\* String.prototype.toLowerCase, on the letters of the model
LowerChar(ch) == IF ch = "A" THEN "a" ELSE IF ch = "B" THEN "b" ELSE ch

ToLowerCase(str) == [i \in 1..Len(str) |-> LowerChar(str[i])]

IsWhiteSpace(ch) == ch = " "

\* String.prototype.trim
RECURSIVE Trim(_)
Trim(str) ==
    IF str = << >> THEN str
    ELSE IF IsWhiteSpace(Head(str)) THEN Trim(Tail(str))
    ELSE IF IsWhiteSpace(str[Len(str)]) THEN Trim(SubSeq(str, 1, Len(str) - 1))
    ELSE str

\* JSON.stringify of an object given as <<name, value>> pairs: a property whose
\* value is undefined (<< >>) is left out, the others follow in order
RECURSIVE JsonStringify(_)
JsonStringify(props) ==
    IF props = << >> THEN << >>
    ELSE IF Head(props)[2] = << >> THEN JsonStringify(Tail(props))
    ELSE <<Head(props)>> \o JsonStringify(Tail(props))

\* variant: limit is not part of the key
GetCacheKeyWithoutLimit(params) ==
    JsonStringify(<< <<"corpusId", <<params.corpusId>> >>,
                     <<"query", <<Trim(ToLowerCase(params.query))>> >>,
                     <<"generateAnswer", params.generateAnswer>> >>)

\* variant: the query text is used as given
GetCacheKeyRaw(params) ==
    JsonStringify(<< <<"corpusId", <<params.corpusId>> >>,
                     <<"query", <<params.query>> >>,
                     <<"limit", params.limit>>,
                     <<"generateAnswer", params.generateAnswer>> >>)

GetCacheKey(params) ==
    JsonStringify(<< <<"corpusId", <<params.corpusId>> >>,
                     <<"query", <<Trim(ToLowerCase(params.query))>> >>,
                     <<"limit", params.limit>>,
                     <<"generateAnswer", params.generateAnswer>> >>)

\* QueryParams given to the cache: limit and generateAnswer are optional
\* (<< >> when undefined)
CacheRequests ==
    {[corpusId |-> "docs", query |-> q, limit |-> << >>, generateAnswer |-> << >>] :
        q \in {<<"A", " ">>, <<"b">>, <<"c">>}}

CacheKeys == {GetCacheKey(r) : r \in CacheRequests}

\* the strings of at most n characters out of "A", "a" and " "
RECURSIVE QueryTexts(_)
QueryTexts(n) ==
    IF n = 0 THEN {<< >>}
    ELSE QueryTexts(n - 1) \cup
         {Append(q, ch) : q \in QueryTexts(n - 1), ch \in {"A", "a", " "}}

\* QueryParams given to getCacheKey
KeyRequests ==
    [corpusId : {"docs", "faq"}, query : QueryTexts(MaxQueryLen),
     limit : {<< >>, <<5>>}, generateAnswer : {<< >>, <<TRUE>>}]

\* no call of getCacheKey yet
KeyIdle == kKeys = << >>

\* getCacheKey(a), getCacheKey(b), and getCacheKey(a) once more
GetCacheKeys ==
    /\ UNCHANGED outsideKey
    /\ kKeys = << >>
    /\ kKeys' = <<GetCacheKey(kParams[1]), GetCacheKey(kParams[2]), GetCacheKey(kParams[1])>>
    /\ UNCHANGED kParams

KeyNext == GetCacheKeys

\* the instants at which Date.now() is read, in milliseconds
CacheTimes == {0, 150000, CacheTimeout}

\* lruKey undefined
NoKey == << >>

\* index of the entry of key k in the Map c, 0 when there is none
IndexOf(c, k) ==
    IF \E i \in 1..Len(c) : c[i].key = k
    THEN CHOOSE i \in 1..Len(c) : c[i].key = k
    ELSE 0

\* this.cache.delete(k)
CacheDelete(c, k) == SelectSeq(c, LAMBDA en : en.key # k)

\* this.cache.set(k, {response, timestamp, hits}): an existing key keeps its place
CacheSet(c, k, response, t) ==
    LET en == [key |-> k, response |-> response, timestamp |-> t, hits |-> 0]
    IN  IF IndexOf(c, k) = 0 THEN Append(c, en) ELSE [c EXCEPT ![IndexOf(c, k)] = en]

\* variant: <= instead of <
IsCacheValidInclusive(en, t) == t - en.timestamp <= CacheTimeout

IsCacheValid(en, t) == t - en.timestamp < CacheTimeout

\* entry.hits * 10000 + (Date.now() - entry.timestamp)
Score(en, t) == en.hits * HitWeight + (t - en.timestamp)

\* the forEach of findLRUKey from entry i on: best is the index of the entry
\* of the lowest score so far, 0 while minHits is Infinity
RECURSIVE FindLRUFrom(_, _, _, _)
FindLRUFrom(c, t, i, best) ==
    IF i > Len(c) THEN best
    ELSE IF best = 0 \/ Score(c[i], t) < Score(c[best], t)
         THEN FindLRUFrom(c, t, i + 1, i)
         ELSE FindLRUFrom(c, t, i + 1, best)

\* variant: the first entry in insertion order is chosen
FindLRUKeyOldestInserted(c, t) == IF c = << >> THEN NoKey ELSE c[1].key

FindLRUKey(c, t) ==
    LET best == FindLRUFrom(c, t, 1, 0)
    IN  IF best = 0 THEN NoKey ELSE c[best].key

\* variant: the entry is set without the eviction
UpdateCacheNoEviction(c, k, response, t) == CacheSet(c, k, response, t)

UpdateCache(c, k, response, t) ==
    LET lruKey == FindLRUKey(c, t)
        c1 == IF Len(c) >= MaxCacheSize /\ lruKey # NoKey
              THEN CacheDelete(c, lruKey)
              ELSE c
    IN  CacheSet(c1, k, response, t)

\* variant: a failed call removes the entry of its key
CacheDropsEntryOnFailure(c, k) == CacheDelete(c, k)

\* the cache after the inner query of a call of key k has thrown: query() has
\* no catch, nothing of it runs
CacheAfterFailure(c, k) == c

\* what the inner client throws at the cache
CacheInnerErrors(id) ==
    {e \in InnerErrors(id) : e.code = 500}

CacheIdle ==
    /\ cache = << >>
    /\ cacheNow = 0
    /\ cPending = {}
    /\ cCalls = 0
    /\ cEv = "none"
    /\ cKey = NoKey
    /\ cOutcome = Pending
    /\ cPrev = << >>
    /\ cLastStore = [k \in CacheKeys |-> << >>]

\* query(params) up to its return from the cache or its await
CacheQuery ==
    /\ UNCHANGED outsideCache
    /\ cCalls < MaxCacheCalls
    /\ cCalls' = cCalls + 1
    /\ \E params \in CacheRequests :
        LET cacheKey == GetCacheKey(params)
            i == IndexOf(cache, cacheKey)
        IN  /\ cKey' = cacheKey
            /\ cPrev' = cache
            /\ IF i # 0 /\ IsCacheValid(cache[i], cacheNow)
               THEN /\ cache' = [cache EXCEPT ![i].hits = @ + 1]
                    /\ cOutcome' = Returned(cache[i].response)
                    /\ cEv' = "hit"
                    /\ UNCHANGED cPending
               ELSE /\ cPending' = cPending \cup {[key |-> cacheKey, id |-> cCalls + 1]}
                    /\ cOutcome' = Pending
                    /\ cEv' = "miss"
                    /\ UNCHANGED cache
    /\ UNCHANGED <<cacheNow, cLastStore>>

\* a pending inner query returns: updateCache(cacheKey, response), return response
CacheInnerSucceeds ==
    /\ UNCHANGED outsideCache
    /\ \E call \in cPending :
        /\ cPending' = cPending \ {call}
        /\ cache' = UpdateCache(cache, call.key, call.id, cacheNow)
        /\ cLastStore' = [cLastStore EXCEPT ![call.key] = <<cacheNow>>]
        /\ cOutcome' = Returned(call.id)
        /\ cKey' = call.key
    /\ cEv' = "stored"
    /\ cPrev' = cache
    /\ UNCHANGED <<cacheNow, cCalls>>

\* a pending inner query throws: the error leaves query() as it is
CacheInnerFails ==
    /\ UNCHANGED outsideCache
    /\ \E call \in cPending :
        /\ cPending' = cPending \ {call}
        /\ cache' = CacheAfterFailure(cache, call.key)
        /\ \E e \in CacheInnerErrors(call.id) : cOutcome' = Thrown(e)
        /\ cKey' = call.key
    /\ cEv' = "failed"
    /\ cPrev' = cache
    /\ UNCHANGED <<cacheNow, cCalls, cLastStore>>

\* Date.now() advances
CacheTick ==
    /\ UNCHANGED outsideCache
    /\ \E t \in CacheTimes : t > cacheNow /\ cacheNow' = t
    /\ cEv' = "tick"
    /\ cKey' = NoKey
    /\ cOutcome' = Pending
    /\ cPrev' = cache
    /\ UNCHANGED <<cache, cPending, cCalls, cLastStore>>

CacheNext == CacheQuery \/ CacheInnerSucceeds \/ CacheInnerFails \/ CacheTick

-----------------------------------------------------------------------------
(* MonitoredVantigeClient *)

\* windowSize when the constructor is given none
DefaultWindowSize == 100

WindowSizes == {2, DefaultWindowSize}

\* new Error('Circuit breaker is OPEN - service unavailable')
CircuitOpenError(id) ==
    [kind |-> "other", code |-> 0, sys |-> "none", retryAfter |-> << >>, id |-> id]

\* what the inner client throws at the monitor: a VantigeSDKError, a network
\* error, or the rejection of an open circuit
MonitorInnerErrors(id) ==
    {e \in InnerErrors(id) :
        \/ e.kind = "sdk" /\ e.code \in {429, 500} /\ e.retryAfter = << >>
        \/ e.sys = "ECONNRESET"}
    \cup {CircuitOpenError(id)}

MonitorCodes == SdkCodes

\* error instanceof VantigeSDKError
InstanceOfSDKError(e) == e.kind = "sdk"

Min(a, b) == IF a < b THEN a ELSE b

\* variant: the errors are divided by all the requests made
UpdateErrorRateOverAll(m, requests, windowSize) ==
    IF requests > 0
    THEN [m EXCEPT !.errorRate = <<m.totalErrors, requests>>]
    ELSE m

\* updateErrorRate(): errorRate is the fraction <<totalErrors, recentRequests>>
UpdateErrorRate(m, requests, windowSize) ==
    LET recentRequests == Min(requests, windowSize)
    IN  IF recentRequests > 0
        THEN [m EXCEPT !.errorRate = <<m.totalErrors, recentRequests>>]
        ELSE m

\* recordError(error), without its console.error
RecordError(m, error, requests, windowSize) ==
    LET counted == [m EXCEPT !.totalErrors = @ + 1,
                             !.errorsByCode[error.code] = @ + 1,
                             !.lastError = [code |-> error.code, id |-> error.id]]
    IN  UpdateErrorRate(counted, requests, windowSize)

\* what a callback registered with onError throws
ObserverError(i) ==
    [kind |-> "observer", code |-> 0, sys |-> "", retryAfter |-> << >>, id |-> i]

\* variant: no try/catch around callback(error), the first throw ends the forEach
NotifyErrorCallbacksUnguarded(callbacks) ==
    LET throwing == {i \in 1..Len(callbacks) : callbacks[i] = "throws"}
        first == IF throwing = {} THEN 0
                 ELSE CHOOSE i \in throwing : \A j \in throwing : i <= j
    IN  [called |-> [i \in 1..(IF first = 0 THEN Len(callbacks) ELSE first) |-> i],
         caught |-> << >>,
         escaped |-> IF first = 0 THEN NoError ELSE ObserverError(first)]

\* notifyErrorCallbacks(error): the forEach calls every callback in the order
\* of the array; one that throws is caught and logged, nothing escapes
NotifyErrorCallbacks(callbacks) ==
    [called |-> [i \in 1..Len(callbacks) |-> i],
     caught |-> SelectSeq([i \in 1..Len(callbacks) |-> i],
                          LAMBDA i : callbacks[i] = "throws"),
     escaped |-> NoError]

\* no callback is called
NoNotification == [called |-> << >>, caught |-> << >>, escaped |-> NoError]

\* the catch block of query(): the callbacks it notifies
NotificationAfterError(error, callbacks) ==
    IF InstanceOfSDKError(error) THEN NotifyErrorCallbacks(callbacks) ELSE NoNotification

\* variant: the error is wrapped in a new Error before it is thrown
MonitorThrowsWrapped(error, callbacks) == [error EXCEPT !.kind = "other", !.code = 0]

\* the catch block of query(): what it throws
MonitorThrows(error, callbacks) ==
    LET notified == NotificationAfterError(error, callbacks)
    IN  IF notified.escaped # NoError THEN notified.escaped ELSE error

\* the 0.01 and 0.1 of getHealthStatus, as fractions
HealthyBelow == <<1, 100>>
DegradedBelow == <<1, 10>>

\* a < b for fractions of positive denominators
Less(a, b) == a[1] * b[2] < b[1] * a[2]

\* variant: <= instead of <
GetHealthStatusInclusive(m) ==
    IF ~Less(HealthyBelow, m.errorRate) THEN "healthy"
    ELSE IF ~Less(DegradedBelow, m.errorRate) THEN "degraded"
    ELSE "unhealthy"

GetHealthStatus(m) ==
    IF Less(m.errorRate, HealthyBelow) THEN "healthy"
    ELSE IF Less(m.errorRate, DegradedBelow) THEN "degraded"
    ELSE "unhealthy"

\* this.metrics after getHealthStatus(): it assigns nothing
HealthEffect(m) == m

\* the catch block of query()
MetricsAfterError(m, error, requests, windowSize) ==
    IF InstanceOfSDKError(error) THEN RecordError(m, error, requests, windowSize) ELSE m

MonitorIdle ==
    /\ mRequests = 0
    /\ metrics = [totalErrors |-> 0, errorsByCode |-> [c \in MonitorCodes |-> 0],
                  errorRate |-> <<0, 1>>, lastError |-> [code |-> 0, id |-> 0]]
    /\ mCallbacks = << >>
    /\ mPending = {}
    /\ mCompleted = 0
    /\ mFailed = 0
    /\ mEv = "none"
    /\ mOutcome = Pending
    /\ mNotified = << >>
    /\ mCaught = << >>
    /\ mInner = Pending
    /\ mPrev = metrics
    /\ mHealth = "none"

\* query(params) up to its await
MonitorQuery ==
    /\ UNCHANGED outsideMonitor
    /\ mRequests < MaxMonitorCalls
    /\ mRequests' = mRequests + 1
    /\ mPending' = mPending \cup {mRequests + 1}
    /\ mEv' = "call"
    /\ mOutcome' = Pending
    /\ mInner' = Pending
    /\ mNotified' = << >>
    /\ mCaught' = << >>
    /\ mPrev' = metrics
    /\ mHealth' = "none"
    /\ UNCHANGED <<mWindowSize, metrics, mCallbacks, mCompleted, mFailed>>

\* a pending inner query returns: updateErrorRate(), return response
MonitorInnerSucceeds ==
    /\ UNCHANGED outsideMonitor
    /\ \E id \in mPending :
        /\ mPending' = mPending \ {id}
        /\ mInner' = Returned(id)
        /\ mOutcome' = Returned(id)
    /\ metrics' = UpdateErrorRate(metrics, mRequests, mWindowSize)
    /\ mCompleted' = mCompleted + 1
    /\ mEv' = "success"
    /\ mNotified' = << >>
    /\ mCaught' = << >>
    /\ mPrev' = metrics
    /\ mHealth' = "none"
    /\ UNCHANGED <<mWindowSize, mRequests, mCallbacks, mFailed>>

\* a pending inner query throws: the catch block, then throw error
MonitorInnerFails ==
    /\ UNCHANGED outsideMonitor
    /\ \E id \in mPending :
        /\ mPending' = mPending \ {id}
        /\ \E error \in MonitorInnerErrors(id) :
            /\ metrics' = MetricsAfterError(metrics, error, mRequests, mWindowSize)
            /\ mInner' = Thrown(error)
            /\ LET notified == NotificationAfterError(error, mCallbacks)
               IN  /\ mNotified' = notified.called
                   /\ mCaught' = notified.caught
                   /\ mOutcome' = Thrown(MonitorThrows(error, mCallbacks))
    /\ mCompleted' = mCompleted + 1
    /\ mFailed' = mFailed + 1
    /\ mEv' = "failure"
    /\ mPrev' = metrics
    /\ mHealth' = "none"
    /\ UNCHANGED <<mWindowSize, mRequests, mCallbacks>>

\* onError(callback)
MonitorOnError ==
    /\ UNCHANGED outsideMonitor
    /\ Len(mCallbacks) < MaxCallbacks
    /\ \E does \in {"returns", "throws"} : mCallbacks' = Append(mCallbacks, does)
    /\ mEv' = "onError"
    /\ mOutcome' = Pending
    /\ mInner' = Pending
    /\ mNotified' = << >>
    /\ mCaught' = << >>
    /\ mPrev' = metrics
    /\ mHealth' = "none"
    /\ UNCHANGED <<mWindowSize, mRequests, metrics, mPending, mCompleted, mFailed>>

\* getHealthStatus()
MonitorGetHealthStatus ==
    /\ UNCHANGED outsideMonitor
    /\ metrics' = HealthEffect(metrics)
    /\ mHealth' = GetHealthStatus(metrics')
    /\ mEv' = "health"
    /\ mOutcome' = Pending
    /\ mInner' = Pending
    /\ mNotified' = << >>
    /\ mCaught' = << >>
    /\ mPrev' = metrics
    /\ UNCHANGED <<mWindowSize, mRequests, mCallbacks, mPending, mCompleted, mFailed>>

MonitorNext ==
    \/ MonitorQuery
    \/ MonitorInnerSucceeds
    \/ MonitorInnerFails
    \/ MonitorOnError
    \/ MonitorGetHealthStatus

\* the numbers of calls made before getHealthStatus is asked
HealthRequests == {1, 10, DefaultWindowSize, 2 * DefaultWindowSize}

\* the monitor once n calls have completed, e of them with a
\* VantigeSDKError of code 500 and the others with a response, the last one
\* counted being call n
MonitorSettled(n, e) ==
    /\ mRequests = n
    /\ metrics = [totalErrors |-> e,
                  errorsByCode |-> [c \in MonitorCodes |-> IF c = 500 THEN e ELSE 0],
                  errorRate |-> <<e, Min(n, mWindowSize)>>,
                  lastError |-> IF e = 0 THEN [code |-> 0, id |-> 0]
                                ELSE [code |-> 500, id |-> n]]
    /\ mCallbacks = << >>
    /\ mPending = {}
    /\ mCompleted = n
    /\ mFailed = e
    /\ mEv = "none"
    /\ mOutcome = Pending
    /\ mNotified = << >>
    /\ mCaught = << >>
    /\ mInner = Pending
    /\ mPrev = metrics
    /\ mHealth = "none"

HealthNext == MonitorGetHealthStatus

\* a MonitoredVantigeClient that is constructed and never called
MonitorUnused ==
    /\ mWindowSize = DefaultWindowSize
    /\ MonitorIdle

-----------------------------------------------------------------------------
(* The clients wired together (Complete Error Handling Example) *)

DefaultMaxRetries == 3
DefaultFailureThreshold == 5
DefaultResetTimeout == 60000

\* variant: the order of the layered description, monitoring outermost and
\* the cache next to the base client
WiringCacheInnermost == <<"monitor", "breaker", "retry", "cache">>

\* variant: the monitor around the cache
WiringMonitorFirst == <<"monitor", "cache", "breaker", "retry">>

\* variant: the retry client around the monitor and the breaker
WiringRetryOutside == <<"cache", "retry", "monitor", "breaker">>

\* the clients from the outermost (cachedClient) to the one that wraps the
\* base client (retryableClient)
Wiring == <<"cache", "monitor", "breaker", "retry">>

\* the place of a client in the wiring
Place(name) == CHOOSE i \in 1..Len(Wiring) : Wiring[i] = name

\* the clients the caller (resilientClient) holds and calls: primaryClient is
\* monitoredClient, cacheClient is cachedClient
Held == {"monitor", "cache"}

\* what the base client (VantigeClient) throws: a retryable and a
\* non-retryable VantigeSDKError without hint
ChainBaseErrors(id) ==
    {e \in InnerErrors(id) : e.code \in {400, 500} /\ e.retryAfter = << >>}

\* the params the caller passes
ChainRequests == {r \in CacheRequests : r.query \in {<<"A", " ">>, <<"b">>}}

\* what Math.random() yields, in steps of 1/JitterSteps: the least and the
\* greatest
ChainJitter == {0, JitterSteps - 1}

\* the instants at which Date.now() is read
ChainTimes == {0, DefaultResetTimeout, CacheTimeout}

\* The call enters client i of the wiring (the base client after the last):
\* each query() up to its first await, or to its return or throw.  w holds the
\* fields of the clients, the inputs of the step (key, t, rnd) and where the
\* call is.
RECURSIVE Enter(_, _)
RECURSIVE Leave(_, _, _)
Enter(w, i) ==
    IF i > Len(Wiring)
    THEN [w EXCEPT !.at = "awaiting", !.base = @ + 1, !.trace = Append(@, "base")]
    ELSE LET v == [w EXCEPT !.trace = Append(@, Wiring[i])]
         IN  CASE Wiring[i] = "cache" ->
                    LET j == IndexOf(v.cache, v.key)
                    IN  IF j # 0 /\ IsCacheValid(v.cache[j], v.t)
                        THEN Leave([v EXCEPT !.cache[j].hits = @ + 1], i - 1,
                                   Returned(v.cache[j].response))
                        ELSE Enter(v, i + 1)
               [] Wiring[i] = "monitor" ->
                    Enter([v EXCEPT !.requests = @ + 1], i + 1)
               [] Wiring[i] = "breaker" ->
                    IF v.cb.state = "OPEN" /\ ~ShouldAttemptReset(v.cb, v.t, cbOptions)
                    THEN Leave(v, i - 1, Thrown(CircuitOpenError(0)))
                    ELSE Enter([v EXCEPT !.cb.state =
                                    IF @ = "OPEN" THEN "HALF_OPEN" ELSE @], i + 1)
               [] Wiring[i] = "retry" ->
                    Enter([v EXCEPT !.attempt = 0, !.lastError = NoError], i + 1)

\* The result out of the client inside client i reaches client i: its
\* query() from the await to its return, throw or sleep.  gave is what it
\* returns or throws, Pending when it sleeps.
After(w, i, out) ==
    CASE Wiring[i] = "cache" ->
            [w |-> [w EXCEPT !.cache = IF out.type = "response"
                                       THEN UpdateCache(@, w.key, out.response, w.t)
                                       ELSE CacheAfterFailure(@, w.key)],
             gave |-> out]
      [] Wiring[i] = "monitor" ->
            IF out.type = "response"
            THEN [w |-> [w EXCEPT !.metrics = UpdateErrorRate(@, w.requests, mWindowSize)],
                  gave |-> out]
            ELSE [w |-> [w EXCEPT !.metrics =
                            MetricsAfterError(@, out.error, w.requests, mWindowSize)],
                  gave |-> Thrown(MonitorThrows(out.error, mCallbacks))]
      [] Wiring[i] = "breaker" ->
            [w |-> [w EXCEPT !.cb = IF out.type = "response"
                                    THEN OnSuccess(@)
                                    ELSE OnFailure(@, w.t, cbOptions)],
             gave |-> out]
      [] Wiring[i] = "retry" ->
            IF out.type = "response"
            THEN [w |-> w, gave |-> out]
            ELSE LET v == [w EXCEPT !.lastError = out.error]
                 IN  IF ~IsRetryable(out.error, opts.retryableErrors)
                     THEN [w |-> v, gave |-> out]
                     ELSE IF IsLastAttempt(v.attempt, opts)
                     THEN [w |-> v, gave |-> Thrown(ThrowAfterLoop(v.lastError))]
                     ELSE [w |-> [v EXCEPT !.at = "sleeping",
                                           !.delay = CalculateDelay(v.attempt, out.error,
                                                                    opts, v.rnd)],
                           gave |-> Pending]

\* The result out reaches client i and, through the clients that return or
\* throw in their turn, the caller, who holds the client entered first.  The
\* locals of the retry client end with its query().
Leave(w, i, out) ==
    IF i < Place(w.trace[1])
    THEN [w EXCEPT !.at = "done", !.outcome = out,
                   !.attempt = 0, !.lastError = NoError, !.delay = 0]
    ELSE LET after == After(w, i, out)
             v == [after.w EXCEPT !.passed =
                       Append(@, [client |-> Wiring[i], got |-> out, gave |-> after.gave])]
         IN  IF after.gave = Pending THEN after.w ELSE Leave(v, i - 1, after.gave)

\* the fields of the clients and the inputs of a step
World(k, rnd) ==
    [cache |-> cache, cb |-> cb, metrics |-> metrics, requests |-> mRequests,
     attempt |-> attempt, lastError |-> lastError, delay |-> rDelay,
     base |-> chBase, trace |-> chTrace, passed |-> chPassed, at |-> chPc,
     outcome |-> chOutcome,
     key |-> k, t |-> now, rnd |-> rnd]

\* the step ends in w
Becomes(w) ==
    /\ cache' = w.cache
    /\ cb' = w.cb
    /\ metrics' = w.metrics
    /\ mRequests' = w.requests
    /\ attempt' = w.attempt
    /\ lastError' = w.lastError
    /\ rDelay' = w.delay
    /\ chBase' = w.base
    /\ chTrace' = w.trace
    /\ chPassed' = w.passed
    /\ chPc' = w.at
    /\ chOutcome' = w.outcome

\* the counters chPrev keeps
Counters == [cb |-> cb, requests |-> mRequests, totalErrors |-> metrics.totalErrors]

ChainIdle ==
    /\ chPc = "idle"
    /\ chParams = << >>
    /\ chCalls = 0
    /\ chBase = 0
    /\ chOutcome = Pending
    /\ chTrace = << >>
    /\ chPassed = << >>
    /\ chPrev = Counters

\* primaryClient.query(params) or cacheClient.query(params), the caller
\* awaiting no other call
ChainQuery ==
    /\ UNCHANGED outsideChain
    /\ chPc \in {"idle", "done"}
    /\ chCalls < MaxChainCalls
    /\ chCalls' = chCalls + 1
    /\ chPrev' = Counters
    /\ \E params \in ChainRequests, client \in Held :
        /\ chParams' = params
        /\ Becomes(Enter([World(GetCacheKey(params), 0) EXCEPT
                              !.trace = << >>, !.passed = << >>, !.base = 0,
                              !.outcome = Pending], Place(client)))
    /\ UNCHANGED <<now, cacheNow>>

\* the pending base query returns
ChainBaseSucceeds ==
    /\ UNCHANGED outsideChain
    /\ chPc = "awaiting"
    /\ Becomes(Leave(World(GetCacheKey(chParams), 0), Len(Wiring), Returned(chBase)))
    /\ UNCHANGED <<now, cacheNow, chParams, chCalls, chPrev>>

\* the pending base query throws
ChainBaseFails ==
    /\ UNCHANGED outsideChain
    /\ chPc = "awaiting"
    /\ \E error \in ChainBaseErrors(chBase), rnd \in ChainJitter :
        Becomes(Leave(World(GetCacheKey(chParams), rnd), Len(Wiring), Thrown(error)))
    /\ UNCHANGED <<now, cacheNow, chParams, chCalls, chPrev>>

\* sleep(delay) of the retry client resolves: attempt++ and the next pass
ChainWake ==
    /\ UNCHANGED outsideChain
    /\ chPc = "sleeping"
    /\ LET w == [World(GetCacheKey(chParams), 0) EXCEPT !.attempt = @ + 1, !.delay = 0]
       IN  IF LoopContinues(w.attempt, opts)
           THEN Becomes(Enter(w, Place("retry") + 1))
           ELSE Becomes(Leave(w, Place("retry") - 1, Thrown(ThrowAfterLoop(w.lastError))))
    /\ UNCHANGED <<now, cacheNow, chParams, chCalls, chPrev>>

\* Date.now() advances, for the breaker and the cache alike
ChainTick ==
    /\ UNCHANGED outsideChain
    /\ \E t \in ChainTimes : t > now /\ now' = t /\ cacheNow' = t
    /\ UNCHANGED <<cache, cb, metrics, mRequests, attempt, lastError, rDelay, chainVars>>

\* the failed calls made before the calls that are followed
ChainHistories == {0, DefaultFailureThreshold - 1, DefaultFailureThreshold}

\* the breaker and the monitor once n calls have been made at time 0, each
\* ended by a VantigeSDKError of code 400 at its first base query
ChainSettled(n) ==
    /\ cb = [state |-> IF n >= cbOptions.failureThreshold THEN "OPEN" ELSE "CLOSED",
             failures |-> n,
             lastFailureTime |-> IF n = 0 THEN << >> ELSE <<0>>,
             successCount |-> 0]
    /\ mRequests = n
    /\ metrics = [totalErrors |-> n,
                  errorsByCode |-> [c \in MonitorCodes |-> IF c = 400 THEN n ELSE 0],
                  errorRate |-> IF n = 0 THEN <<0, 1>> ELSE <<n, Min(n, mWindowSize)>>,
                  lastError |-> IF n = 0 THEN [code |-> 0, id |-> 0]
                                ELSE [code |-> 400, id |-> 1]]

ChainNext == ChainQuery \/ ChainBaseSucceeds \/ ChainBaseFails \/ ChainWake \/ ChainTick

\* the wired clients are not used
ChainUnused == ChainIdle

-----------------------------------------------------------------------------
(* BatchQueryProcessor.batchQuery *)

ConcurrencyLimit == 5

\* the query texts of the lists passed
BatchTexts == {"a", "b"}

\* the lists passed as queries
BatchLists == UNION {[1..n -> BatchTexts] : n \in 0..MaxQueries}

\* the empty Map
EmptyMap == [q \in {} |-> 0]

\* Map.set(key, value)
MapSet(map, key, value) ==
    [q \in DOMAIN map \cup {key} |-> IF q = key THEN value ELSE map[q]]

\* variant: slice(i, i + concurrencyLimit + 1)
SliceOneMore(queries, i, limit) ==
    [p \in 1..(Min(i + limit + 1, Len(queries)) - i) |-> i + p]

\* queries.slice(i, i + limit), as the positions (from 1) of its elements
Slice(queries, i, limit) ==
    [p \in 1..(Min(i + limit, Len(queries)) - i) |-> i + p]

\* the calls made by batch.map(query => this.client.query(...)), the first of
\* them being call number first + 1: the response of call k is k
StartBatch(queries, positions, first) ==
    [p \in 1..Len(positions) |->
        [call |-> first + p, position |-> positions[p], query |-> queries[positions[p]],
         status |-> "pending"]]

\* variant: the results are read up to the first failed query
RECURSIVE ForEachResultUntilFailure(_, _)
ForEachResultUntilFailure(results, batch) ==
    IF batch = << >> \/ Head(batch).status # "ok"
    THEN results
    ELSE ForEachResultUntilFailure(MapSet(results, Head(batch).query, Head(batch).call),
                                   Tail(batch))

\* batchResults.forEach(...): every promise is fulfilled, with {query, response}
\* or with {query, error}, and the first kind is set in results
RECURSIVE ForEachResult(_, _)
ForEachResult(results, batch) ==
    IF batch = << >>
    THEN results
    ELSE ForEachResult(IF Head(batch).status = "ok"
                       THEN MapSet(results, Head(batch).query, Head(batch).call)
                       ELSE results,
                       Tail(batch))

\* what a batchQuery() returned
ReturnedMap(map) == [type |-> "map", map |-> map]

\* The loop from its test to the await of Promise.allSettled, or to return
\* results.
BatchLoop(queries, i, results, calls) ==
    IF i < Len(queries)
    THEN LET batch == StartBatch(queries, Slice(queries, i, ConcurrencyLimit), Len(calls))
         IN  /\ bPc' = "awaiting"
             /\ bBatch' = batch
             /\ bCalls' = calls \o batch
             /\ bReturn' = Pending
    ELSE /\ bPc' = "done"
         /\ bBatch' = << >>
         /\ bCalls' = calls
         /\ bReturn' = ReturnedMap(results)

BatchIdle ==
    /\ bPc = "idle"
    /\ bQueries = << >>
    /\ bI = 0
    /\ bBatch = << >>
    /\ bResults = EmptyMap
    /\ bReturn = Pending
    /\ bCalls = << >>

\* batchQuery(corpusId, queries)
BatchQuery ==
    /\ UNCHANGED outsideBatch
    /\ bPc = "idle"
    /\ \E queries \in BatchLists :
        /\ bQueries' = queries
        /\ bI' = 0
        /\ bResults' = EmptyMap
        /\ BatchLoop(queries, 0, EmptyMap, << >>)

\* call number k has ended as status says
Settled(calls, k, status) == [calls EXCEPT ![k].status = status]

\* a pending this.client.query resolves: then() gives {query, response}
BatchCallSucceeds ==
    /\ UNCHANGED outsideBatch
    /\ bPc = "awaiting"
    /\ \E p \in 1..Len(bBatch) :
        /\ bBatch[p].status = "pending"
        /\ bBatch' = Settled(bBatch, p, "ok")
        /\ bCalls' = Settled(bCalls, bBatch[p].call, "ok")
    /\ UNCHANGED <<bPc, bQueries, bI, bResults, bReturn>>

\* a pending this.client.query rejects: catch() gives {query, error}
BatchCallFails ==
    /\ UNCHANGED outsideBatch
    /\ bPc = "awaiting"
    /\ \E p \in 1..Len(bBatch) :
        /\ bBatch[p].status = "pending"
        /\ bBatch' = Settled(bBatch, p, "failed")
        /\ bCalls' = Settled(bCalls, bBatch[p].call, "failed")
    /\ UNCHANGED <<bPc, bQueries, bI, bResults, bReturn>>

\* Promise.allSettled(promises) resolves: forEach, i += concurrencyLimit and
\* the next pass of the loop
BatchGroupSettled ==
    /\ UNCHANGED outsideBatch
    /\ bPc = "awaiting"
    /\ \A p \in 1..Len(bBatch) : bBatch[p].status # "pending"
    /\ bResults' = ForEachResult(bResults, bBatch)
    /\ bI' = bI + ConcurrencyLimit
    /\ BatchLoop(bQueries, bI', bResults', bCalls)
    /\ UNCHANGED bQueries

BatchNext == BatchQuery \/ BatchCallSucceeds \/ BatchCallFails \/ BatchGroupSettled

\* the batch processor is not used
BatchUnused == BatchIdle

-----------------------------------------------------------------------------
(* RetryableClient.queryWithRetry (Retry Strategy) *)

RetryableMaxRetries == 3
RetryableBaseDelay == 1000

\* [429, 500, 502, 503].includes(error.code), for a VantigeSDKError only
RetryableIsRetryable(error) ==
    error.kind = "sdk" /\ error.code \in {429, 500, 502, 503}

\* retryAfter * 1000 for a 429 with a hint, else baseDelay * 2^attempt plus
\* Math.random() * 1000, Math.random() being rnd / JitterSteps; the fraction of
\* a millisecond is dropped
RetryableCalculateDelay(att, error, rnd) ==
    IF error.code = 429 /\ Truthy(error.retryAfter)
    THEN error.retryAfter[1] * 1000
    ELSE RetryableBaseDelay * Pow(2, att) + (rnd * 1000) \div JitterSteps

\* the loop condition: attempt < this.maxRetries
RetryableLoop(att) == att < RetryableMaxRetries

RetryableIdle ==
    /\ qwPc = "idle"
    /\ qwAttempt = 0
    /\ qwLastError = NoError
    /\ qwDelay = 0
    /\ qwOutcome = Pending
    /\ qwInvocations = 0
    /\ qwSleeps = 0

\* The loop from its test to the await of this.client.query, or to
\* throw lastError!.
RetryablePass(att) ==
    IF RetryableLoop(att)
    THEN /\ qwPc' = "awaiting"
         /\ qwInvocations' = qwInvocations + 1
         /\ qwOutcome' = qwOutcome
    ELSE /\ qwPc' = "done"
         /\ qwInvocations' = qwInvocations
         /\ qwOutcome' = Thrown(qwLastError)

\* queryWithRetry(params) is called
QueryWithRetry ==
    /\ UNCHANGED outsideRetryable
    /\ qwPc = "idle"
    /\ qwAttempt' = 0
    /\ RetryablePass(0)
    /\ UNCHANGED <<qwLastError, qwDelay, qwSleeps>>

\* return await this.client.query(params)
RetryableInnerSucceeds ==
    /\ UNCHANGED outsideRetryable
    /\ qwPc = "awaiting"
    /\ qwPc' = "done"
    /\ qwOutcome' = Returned(qwInvocations)
    /\ UNCHANGED <<qwAttempt, qwLastError, qwDelay, qwInvocations, qwSleeps>>

\* the catch block, for the error the pending query throws
RetryableInnerFails ==
    /\ UNCHANGED outsideRetryable
    /\ qwPc = "awaiting"
    /\ \E error \in InnerErrors(qwInvocations), rnd \in 0..(JitterSteps - 1) :
        /\ qwLastError' = error
        /\ IF ~RetryableIsRetryable(error)
           THEN /\ qwPc' = "done"
                /\ qwOutcome' = Thrown(error)
                /\ UNCHANGED <<qwDelay, qwSleeps>>
           ELSE /\ qwPc' = "sleeping"
                /\ qwDelay' = RetryableCalculateDelay(qwAttempt, error, rnd)
                /\ qwSleeps' = qwSleeps + 1
                /\ qwOutcome' = qwOutcome
    /\ UNCHANGED <<qwAttempt, qwInvocations>>

\* this.sleep(delay) resolves: attempt++ and the next pass through the loop
RetryableWake ==
    /\ UNCHANGED outsideRetryable
    /\ qwPc = "sleeping"
    /\ qwAttempt' = qwAttempt + 1
    /\ RetryablePass(qwAttempt + 1)
    /\ UNCHANGED <<qwLastError, qwDelay, qwSleeps>>

RetryableNext ==
    QueryWithRetry \/ RetryableInnerSucceeds \/ RetryableInnerFails \/ RetryableWake

\* the RetryableClient is not used
RetryableUnused == RetryableIdle

-----------------------------------------------------------------------------
(* ResilientSearchClient.searchWithFallback *)

\* variant: the cache is asked first
StrategiesCachedFirst == <<"cached", "primary", "simplified", "default">>

\* const strategies = [tryPrimarySearch, tryCachedSearch, trySimplifiedSearch,
\* returnDefaultResponse]
Strategies == <<"primary", "cached", "simplified", "default">>

\* the words of the queries passed
SearchWords == {"what", "is", "vantige", "api"}

\* the stop words of extractKeywords that are words of the model
StopWords == {"what", "is"}

\* word.length
WordLength(word) ==
    CASE word = "what" -> 4
      [] word = "is" -> 2
      [] word = "vantige" -> 7
      [] word = "api" -> 3

\* extractKeywords(query): the words that are no stop words and longer than 2
ExtractKeywords(query) ==
    SelectSeq(query, LAMBDA word : word \notin StopWords /\ WordLength(word) > 2)

\* the queries passed, as their words
SearchQueries == {<<"what", "is">>, <<"what", "is", "vantige">>, <<"vantige", "api">>}

\* new Error('No cache client available')
NoCacheClientError ==
    [kind |-> "nocache", code |-> 0, sys |-> "", retryAfter |-> << >>, id |-> 0]

\* new Error('All search strategies failed')
AllStrategiesFailedError ==
    [kind |-> "allfailed", code |-> 0, sys |-> "", retryAfter |-> << >>, id |-> 0]

\* what a client query of the search throws
SearchInnerErrors(id) ==
    {e \in InnerErrors(id) : e.retryAfter = << >> /\ (e.code \in {400, 500} \/ e.sys = "ETIMEDOUT")}

\* the SearchResult a strategy returns out of the response of its query (0:
\* no response, results: [])
StrategyResult(name, response) ==
    [type |-> name,
     confidence |-> CASE name = "primary" -> "high"
                      [] name = "cached" -> "medium"
                      [] name = "simplified" -> "low"
                      [] name = "default" -> "none",
     results |-> response]

\* the client query a strategy makes
StrategyQuery(name, query) ==
    CASE name = "primary" ->
            [client |-> "primaryClient", query |-> query, generateAnswer |-> TRUE,
             limit |-> 10]
      [] name = "cached" ->
            [client |-> "cacheClient", query |-> query, generateAnswer |-> FALSE,
             limit |-> 5]
      [] name = "simplified" ->
            [client |-> "primaryClient", query |-> ExtractKeywords(query),
             generateAnswer |-> FALSE, limit |-> 3]

\* what searchWithFallback() gave
Found(result) == [type |-> "result", error |-> NoError, value |-> result]
Raised(e) == [type |-> "error", error |-> e, value |-> << >>]
Searching == [type |-> "pending", error |-> NoError, value |-> << >>]

\* a strategy called, how it ended and the error the loop logged for it
Tried(name, ended, error) == [strategy |-> name, ended |-> ended, error |-> error]

\* The loop from strategy k on, up to the await of a client query, the return
\* of a result or the throw after the loop.  w holds tried and sent.
RECURSIVE TryFrom(_, _, _, _)
TryFrom(w, k, query, hasCache) ==
    IF k > Len(Strategies)
    THEN [w EXCEPT !.pc = "done", !.result = Raised(AllStrategiesFailedError)]
    ELSE LET name == Strategies[k]
         IN  IF name = "default"
             THEN [w EXCEPT !.pc = "done",
                            !.tried = Append(@, Tried(name, "returned", NoError)),
                            !.result = Found(StrategyResult(name, 0))]
             ELSE IF name = "cached" /\ ~hasCache
             THEN TryFrom([w EXCEPT !.tried = Append(@, Tried(name, "failed",
                                                               NoCacheClientError))],
                          k + 1, query, hasCache)
             ELSE [w EXCEPT !.pc = "awaiting",
                            !.tried = Append(@, Tried(name, "pending", NoError)),
                            !.sent = Append(@, StrategyQuery(name, query))]

\* the step ends in w
SearchBecomes(w) ==
    /\ sfPc' = w.pc
    /\ sfTried' = w.tried
    /\ sfSent' = w.sent
    /\ sfResult' = w.result

ResilientIdle ==
    /\ sfPc = "idle"
    /\ sfQuery = << >>
    /\ sfTried = << >>
    /\ sfSent = << >>
    /\ sfResult = Searching

\* searchWithFallback(corpusId, query)
SearchWithFallback ==
    /\ UNCHANGED outsideResilient
    /\ sfPc = "idle"
    /\ \E query \in SearchQueries :
        /\ sfQuery' = query
        /\ SearchBecomes(TryFrom([pc |-> sfPc, tried |-> << >>, sent |-> << >>,
                                  result |-> Searching], 1, query, sfHasCache))
    /\ UNCHANGED sfHasCache

\* the pending client query returns: the strategy returns its SearchResult and
\* searchWithFallback returns it
SearchInnerSucceeds ==
    /\ UNCHANGED outsideResilient
    /\ sfPc = "awaiting"
    /\ sfPc' = "done"
    /\ sfTried' = [sfTried EXCEPT ![Len(sfTried)].ended = "returned"]
    /\ sfResult' = Found(StrategyResult(sfTried[Len(sfTried)].strategy, Len(sfSent)))
    /\ UNCHANGED <<sfHasCache, sfQuery, sfSent>>

\* the pending client query throws: the catch of the loop logs, and the next
\* strategies are tried
SearchInnerFails ==
    /\ UNCHANGED outsideResilient
    /\ sfPc = "awaiting"
    /\ \E error \in SearchInnerErrors(Len(sfSent)) :
        SearchBecomes(TryFrom([pc |-> sfPc,
                               tried |-> [sfTried EXCEPT ![Len(sfTried)].ended = "failed",
                                                         ![Len(sfTried)].error = error],
                               sent |-> sfSent, result |-> sfResult],
                              Len(sfTried) + 1, sfQuery, sfHasCache))
    /\ UNCHANGED <<sfHasCache, sfQuery>>

ResilientNext == SearchWithFallback \/ SearchInnerSucceeds \/ SearchInnerFails

\* the ResilientSearchClient is not used
ResilientUnused == sfHasCache = TRUE /\ ResilientIdle

-----------------------------------------------------------------------------
(* Specifications *)

\* getCacheKey is not called
KeyUnused ==
    /\ kParams = << >>
    /\ KeyIdle

\* one call of RetryableVantigeClient.query under any of the option sets
InitRetry ==
    /\ RetryInit
    /\ cbOptions = [failureThreshold |-> 1, resetTimeout |-> 1]
    /\ BreakerIdle
    /\ CacheIdle
    /\ KeyUnused
    /\ MonitorUnused
    /\ ChainUnused
    /\ BatchUnused
    /\ RetryableUnused
    /\ ResilientUnused

SpecRetry == InitRetry /\ [][RetryNext]_vars

\* the same call, every pending inner query settling and every sleep ending
SpecRetryLive ==
    /\ InitRetry
    /\ [][RetryNext]_vars
    /\ WF_vars(RetryInnerSucceeds \/ RetryInnerFails)
    /\ WF_vars(RetryWake)

\* any calls of CircuitBreakerClient.query, overlapping or not, as time passes
InitBreaker ==
    /\ BreakerInit
    /\ opts = [maxRetries |-> 0, initialDelay |-> DefaultInitialDelay,
               maxDelay |-> DefaultMaxDelay,
               backoffMultiplier |-> DefaultBackoffMultiplier,
               retryableErrors |-> DefaultRetryableErrors]
    /\ RetryIdle
    /\ CacheIdle
    /\ KeyUnused
    /\ MonitorUnused
    /\ ChainUnused
    /\ BatchUnused
    /\ RetryableUnused
    /\ ResilientUnused

SpecBreaker == InitBreaker /\ [][BreakerNext]_vars

\* a RetryableVantigeClient that is constructed and never called
RetryUnused ==
    /\ opts = [maxRetries |-> 0, initialDelay |-> DefaultInitialDelay,
               maxDelay |-> DefaultMaxDelay,
               backoffMultiplier |-> DefaultBackoffMultiplier,
               retryableErrors |-> DefaultRetryableErrors]
    /\ RetryIdle

\* a CircuitBreakerClient that is constructed and never called
BreakerUnused ==
    /\ cbOptions = [failureThreshold |-> 1, resetTimeout |-> 1]
    /\ BreakerIdle

\* any calls of CachedVantigeClient.query, overlapping or not, as time passes
InitCache ==
    /\ CacheIdle
    /\ RetryUnused
    /\ BreakerUnused
    /\ KeyUnused
    /\ MonitorUnused
    /\ ChainUnused
    /\ BatchUnused
    /\ RetryableUnused
    /\ ResilientUnused

SpecCache == InitCache /\ [][CacheNext]_vars

\* getCacheKey on any two params objects
InitKey ==
    /\ kParams \in KeyRequests \X KeyRequests
    /\ KeyIdle
    /\ CacheIdle
    /\ RetryUnused
    /\ BreakerUnused
    /\ MonitorUnused
    /\ ChainUnused
    /\ BatchUnused
    /\ RetryableUnused
    /\ ResilientUnused

SpecKey == InitKey /\ [][KeyNext]_vars

\* any calls of MonitoredVantigeClient.query and onError, overlapping or not
InitMonitor ==
    /\ mWindowSize \in WindowSizes
    /\ MonitorIdle
    /\ RetryUnused
    /\ BreakerUnused
    /\ CacheIdle
    /\ KeyUnused
    /\ ChainUnused
    /\ BatchUnused
    /\ RetryableUnused
    /\ ResilientUnused

SpecMonitor == InitMonitor /\ [][MonitorNext]_vars

\* getHealthStatus() asked of a monitor that has counted some calls
InitHealth ==
    /\ mWindowSize \in WindowSizes
    /\ \E n \in HealthRequests : \E e \in 0..Min(n, MaxHealthErrors) : MonitorSettled(n, e)
    /\ RetryUnused
    /\ BreakerUnused
    /\ CacheIdle
    /\ KeyUnused
    /\ ChainUnused
    /\ BatchUnused
    /\ RetryableUnused
    /\ ResilientUnused

SpecHealth == InitHealth /\ [][HealthNext]_vars

\* the clients as the example constructs them, every option at its default,
\* new or after some failed calls
InitChain ==
    /\ opts = [maxRetries |-> DefaultMaxRetries, initialDelay |-> DefaultInitialDelay,
               maxDelay |-> DefaultMaxDelay,
               backoffMultiplier |-> DefaultBackoffMultiplier,
               retryableErrors |-> DefaultRetryableErrors]
    /\ RetryIdle
    /\ cbOptions = [failureThreshold |-> DefaultFailureThreshold,
                    resetTimeout |-> DefaultResetTimeout]
    /\ mWindowSize = DefaultWindowSize
    /\ \E n \in ChainHistories : ChainSettled(n)
    /\ cbPrev = BreakerFields /\ cbReported = NoReport /\ now = 0
    /\ cbInflight = 0 /\ cbInner = 0 /\ cbStreak = 0 /\ cbPlain = TRUE /\ cbEv = "none"
    /\ mCallbacks = << >> /\ mPending = {} /\ mCompleted = 0 /\ mFailed = 0
    /\ mEv = "none" /\ mOutcome = Pending /\ mNotified = << >> /\ mCaught = << >>
    /\ mInner = Pending /\ mPrev = metrics /\ mHealth = "none"
    /\ CacheIdle
    /\ KeyUnused
    /\ ChainIdle
    /\ BatchUnused
    /\ RetryableUnused
    /\ ResilientUnused

SpecChain == InitChain /\ [][ChainNext]_vars

InitBatch ==
    /\ RetryUnused
    /\ BreakerUnused
    /\ CacheIdle
    /\ KeyUnused
    /\ MonitorUnused
    /\ ChainUnused
    /\ BatchIdle
    /\ RetryableUnused
    /\ ResilientUnused

SpecBatch == InitBatch /\ [][BatchNext]_vars

InitRetryable ==
    /\ RetryUnused
    /\ BreakerUnused
    /\ CacheIdle
    /\ KeyUnused
    /\ MonitorUnused
    /\ ChainUnused
    /\ BatchUnused
    /\ RetryableIdle
    /\ ResilientUnused

SpecRetryable == InitRetryable /\ [][RetryableNext]_vars

InitResilient ==
    /\ RetryUnused
    /\ BreakerUnused
    /\ CacheIdle
    /\ KeyUnused
    /\ MonitorUnused
    /\ ChainUnused
    /\ BatchUnused
    /\ RetryableUnused
    /\ sfHasCache \in BOOLEAN
    /\ ResilientIdle

SpecResilient == InitResilient /\ [][ResilientNext]_vars

-----------------------------------------------------------------------------
(* Properties of RetryableVantigeClient.query (under SpecRetry) *)

\* the error is a VantigeSDKError whose code is in the retryable set of the call
InRetryableSet(e) == e.kind = "sdk" /\ e.code \in opts.retryableErrors

\* the error codes of a failed connection
NetworkCodes == {"ECONNRESET", "ETIMEDOUT", "ENOTFOUND"}

\* C1: when the inner invocations all fail with errors of the retryable set,
\* the error reaches the caller after exactly maxRetries + 1 inner
\* invocations, all of them failed, and not before.
C1_ExhaustedAfterMaxRetriesPlusOne ==
    (rOutcome.type = "error" /\ InRetryableSet(rOutcome.error))
        => (rInvocations = opts.maxRetries + 1 /\ rFailures = rInvocations)

C1_Witness ==
    /\ rPc = "done"
    /\ rOutcome.type = "error"
    /\ InRetryableSet(rOutcome.error)
    /\ opts.maxRetries >= 2
    /\ rInvocations = opts.maxRetries + 1

\* C2: once an inner invocation has failed with a classified error whose code
\* is not in the retryable set, the call is over with that very error: the
\* invocation that threw it is the last one and no sleep follows it, at any
\* attempt index.
C2_NonRetryablePropagatesAtOnce ==
    (lastError.kind = "sdk" /\ lastError.code \notin opts.retryableErrors)
        => /\ rPc = "done"
           /\ rOutcome = Thrown(lastError)
           /\ rInvocations = lastError.id
           /\ rSleeps = rInvocations - 1

C2_Witness ==
    /\ rPc = "done"
    /\ lastError.kind = "sdk"
    /\ lastError.code = 400
    /\ attempt >= 1
    /\ attempt < opts.maxRetries

\* C3: when the attempts are exhausted, the caller receives the error object
\* thrown by the last inner invocation: not an earlier one, not the summary
\* error.
C3_LastErrorSurfaced ==
    (rOutcome.type = "error" /\ rInvocations = opts.maxRetries + 1)
        => /\ rOutcome.error.kind \in {"sdk", "other"}
           /\ rOutcome.error.id = rInvocations
           /\ rOutcome.error = lastError

C3_Witness ==
    /\ rPc = "done"
    /\ rOutcome.type = "error"
    /\ opts.maxRetries >= 1
    /\ rInvocations = opts.maxRetries + 1
    /\ IsRetryable(rOutcome.error, opts.retryableErrors)

\* C4: k <= maxRetries retryable failures followed by a success give the
\* caller the response of invocation k + 1 and no error: a response comes
\* after exactly rFailures + 1 invocations, an invocation that did not fail
\* ends the call with its response, and an error of the retryable set reaches
\* the caller only after more than maxRetries failures.
C4_SuccessAfterRetries ==
    /\ rOutcome.type = "response"
         => (rInvocations = rFailures + 1 /\ rOutcome.response = rInvocations)
    /\ (rPc = "done" /\ rFailures < rInvocations) => rOutcome = Returned(rInvocations)
    /\ (rOutcome.type = "error" /\ InRetryableSet(rOutcome.error))
         => rFailures > opts.maxRetries

\* one rate-limited failure, then a success: two invocations
C4_Witness ==
    /\ rPc = "done"
    /\ rOutcome.type = "response"
    /\ lastError.kind = "sdk"
    /\ lastError.code = 429
    /\ rFailures = 1
    /\ rInvocations = 2

\* min(initialDelay * backoffMultiplier^attempt, maxDelay) of the claim, as a
\* fraction <<numerator, denominator>>
C5_Base ==
    LET num == opts.initialDelay * Pow(opts.backoffMultiplier[1], attempt)
        den == Pow(opts.backoffMultiplier[2], attempt)
    IN  IF num > opts.maxDelay * den THEN <<opts.maxDelay, 1>> ELSE <<num, den>>

\* a sleep is under way for an error that carries no retry-after hint
C5_SleepWithoutHint == rPc = "sleeping" /\ lastError.retryAfter = << >>

\* C5 as stated: without a hint, base <= delay <= 1.3 * base.
C5_DelayAtLeastBase ==
    C5_SleepWithoutHint
        => /\ rDelay * C5_Base[2] >= C5_Base[1]
           /\ 10 * rDelay * C5_Base[2] <= 13 * C5_Base[1]

\* C5 amended: without a hint the delay is a whole number of milliseconds
\* with base - 1 < delay <= 1.3 * base (the jittered delay is rounded down).
C5_DelayWithinRoundedBand ==
    C5_SleepWithoutHint
        => /\ rDelay * C5_Base[2] > C5_Base[1] - C5_Base[2]
           /\ 10 * rDelay * C5_Base[2] <= 13 * C5_Base[1]

\* the delay is below a base that is not a whole number
C5_Witness ==
    /\ C5_SleepWithoutHint
    /\ rDelay * C5_Base[2] < C5_Base[1]

\* C6: a retryable failure that carries a retry-after hint of r seconds is
\* followed by a sleep of exactly r * 1000 ms, whatever its class and whatever r.
C6_HintUsedVerbatim ==
    (rPc = "sleeping" /\ lastError.retryAfter # << >>)
        => rDelay = lastError.retryAfter[1] * 1000

-----------------------------------------------------------------------------
(* Properties of CircuitBreakerClient (under SpecBreaker) *)

\* resetTimeout has elapsed since the last recorded failure
ResetTimeoutElapsed ==
    /\ cb.lastFailureTime # << >>
    /\ now - cb.lastFailureTime[1] >= cbOptions.resetTimeout

\* C8: the failure that completes a run of failureThreshold failures in CLOSED
\* opens the circuit; a call that arrives in OPEN before resetTimeout has
\* elapsed is rejected, with no inner invocation and no change of the fields;
\* so calls made one after the other that all fail reach the inner client at
\* most failureThreshold times until a call is let through from OPEN.
C8_TripsAndRejects ==
    /\ [][(cb.state = "CLOSED" /\ cbEv' = "failure"
             /\ cbStreak' >= cbOptions.failureThreshold)
            => cb'.state = "OPEN"]_breakerVars
    /\ [][(cb.state = "OPEN" /\ cbEv' \in {"start", "reject"} /\ ~ResetTimeoutElapsed)
            => (cbEv' = "reject" /\ cbInner' = cbInner /\ cb' = cb)]_breakerVars
    /\ [](cbPlain => cbInner <= cbOptions.failureThreshold)

\* threshold 3: the fourth failing call in a row is rejected, 3 inner invocations
C8_Witness ==
    /\ cbOptions.failureThreshold = 3
    /\ cb.state = "OPEN"
    /\ cbEv = "reject"
    /\ cbPlain
    /\ cbInner = 3
    /\ cbInflight = 0

\* C9: in CLOSED a success leaves the failure counter at zero and the state
\* CLOSED; the step from CLOSED to OPEN is always a failure that completes a
\* run of at least failureThreshold failures with no success between them.
C9_SuccessResetsFailures ==
    [][/\ (cb.state = "CLOSED" /\ cbEv' = "success")
            => (cb'.failures = 0 /\ cb'.state = "CLOSED")
       /\ (cb.state = "CLOSED" /\ cb'.state = "OPEN")
            => (cbEv' = "failure" /\ cbStreak' >= cbOptions.failureThreshold)
      ]_breakerVars

\* a success after a failure, the circuit never having opened
C9_Witness ==
    /\ cb.state = "CLOSED"
    /\ cbEv = "success"
    /\ cb.lastFailureTime # << >>
    /\ cb.failures = 0
    /\ cbInner < cbOptions.failureThreshold

\* C10: in OPEN, a call that arrives once resetTimeout has elapsed since the
\* last recorded failure sets HALF_OPEN and invokes the inner client; a call
\* that arrives earlier is rejected and leaves OPEN; no other step leaves OPEN.
C10_OpenLeftOnlyByLateCall ==
    [][cb.state = "OPEN"
         => IF cbEv' \in {"start", "reject"}
            THEN IF ResetTimeoutElapsed
                 THEN cbEv' = "start" /\ cb'.state = "HALF_OPEN" /\ cbInner' = cbInner + 1
                 ELSE cbEv' = "reject" /\ cb'.state = "OPEN" /\ cbInner' = cbInner
            ELSE cb'.state = "OPEN"
      ]_breakerVars

\* the call let through arrives exactly resetTimeout after the last failure
C10_Witness ==
    /\ cb.state = "HALF_OPEN"
    /\ cbEv = "start"
    /\ cb.lastFailureTime # << >>
    /\ now - cb.lastFailureTime[1] = cbOptions.resetTimeout

\* C11: a failure that completes while the state is HALF_OPEN leaves the state
\* OPEN and the success counter at zero, whatever the success counter was.
C11_HalfOpenFailureReopens ==
    (cbEv = "failure" /\ cbPrev.state = "HALF_OPEN")
        => (cb.state = "OPEN" /\ cb.successCount = 0)

\* two successes had been counted when the failure came
C11_Witness ==
    /\ cbEv = "failure"
    /\ cbPrev.state = "HALF_OPEN"
    /\ cbPrev.successCount = 2
    /\ cb.state = "OPEN"
    /\ cb.successCount = 0

\* C12: a success that completes in HALF_OPEN closes the circuit exactly when
\* it is the third in a row, and then both counters are zero; the first and
\* the second leave the state HALF_OPEN with the success counter raised by one;
\* HALF_OPEN is left for CLOSED in no other way.
C12_ThirdSuccessCloses ==
    /\ (cbEv = "success" /\ cbPrev.state = "HALF_OPEN")
         => IF cbPrev.successCount + 1 = 3
            THEN cb.state = "CLOSED" /\ cb.failures = 0 /\ cb.successCount = 0
            ELSE /\ cb.state = "HALF_OPEN"
                 /\ cb.successCount = cbPrev.successCount + 1
                 /\ cb.successCount < 3
    /\ (cbPrev.state = "HALF_OPEN" /\ cb.state = "CLOSED")
         => (cbEv = "success" /\ cbPrev.successCount = 2)

C12_Witness ==
    /\ cbEv = "success"
    /\ cbPrev.state = "HALF_OPEN"
    /\ cbPrev.successCount = 2
    /\ cb.state = "CLOSED"

\* C13: getState() returns the state and the failure counter as they are and
\* changes none of state, failures, successCount and lastFailureTime; in OPEN
\* with resetTimeout elapsed it still reports OPEN.
C13_GetStateIsPure ==
    cbEv = "getState"
        => /\ cb = cbPrev
           /\ cbReported = [state |-> cbPrev.state, failures |-> cbPrev.failures]

C13_Witness ==
    /\ cbEv = "getState"
    /\ cb.state = "OPEN"
    /\ ResetTimeoutElapsed
    /\ cbReported.state = "OPEN"
    /\ cbReported.failures >= 1

-----------------------------------------------------------------------------
(* Claims about CachedVantigeClient *)

\* the step just taken was the arrival of a call of query()
CacheCallArrived == cEv \in {"hit", "miss"}

\* the step just taken stored a response for a key the cache did not hold,
\* the cache holding maxCacheSize entries
InsertedAtCapacity ==
    cEv = "stored" /\ Len(cPrev) = MaxCacheSize /\ IndexOf(cPrev, cKey) = 0

\* the cache after the step just taken is the cache before it without its
\* entry j, followed by a new entry for the key of the step
EvictedIs(j) ==
    /\ Len(cache) = Len(cPrev)
    /\ \A k \in 1..(Len(cPrev) - 1) : cache[k] = cPrev[IF k < j THEN k ELSE k + 1]
    /\ cache[Len(cache)].key = cKey

\* C14 as stated: once a response for key K has been stored at time T, every
\* call with key K that arrives before T + TTL is served from the cache.
C14_ServedUntilExpiry ==
    (/\ CacheCallArrived
     /\ cLastStore[cKey] # << >>
     /\ cacheNow < cLastStore[cKey][1] + CacheTimeout)
        => cEv = "hit"

\* C14: a call with key K that arrives while the cache holds the entry stored
\* for K at time T, at a time < T + TTL, returns the stored response without a
\* call of the inner client and leaves T as it is; a call that arrives at a
\* time >= T + TTL, or when the cache holds no entry for K, calls the inner
\* client and leaves the cache as it is. The timestamp of an entry is always the
\* time at which its response was stored.
C14_FreshEntryServed ==
    /\ CacheCallArrived =>
         LET i == IndexOf(cPrev, cKey)
         IN  IF i # 0 /\ cacheNow < cPrev[i].timestamp + CacheTimeout
             THEN /\ cEv = "hit"
                  /\ cOutcome = Returned(cPrev[i].response)
                  /\ cache = [cPrev EXCEPT ![i].hits = @ + 1]
                  /\ \A call \in cPending : call.id # cCalls
             ELSE /\ cEv = "miss"
                  /\ cache = cPrev
                  /\ \E call \in cPending : call.key = cKey /\ call.id = cCalls
    /\ \A i \in 1..Len(cache) : cLastStore[cache[i].key] = <<cache[i].timestamp>>

C14_Witness ==
    /\ cEv = "hit"
    /\ cacheNow > 0
    /\ \E i \in 1..Len(cache) :
        /\ cache[i].key = cKey
        /\ cache[i].timestamp = 0
        /\ cache[i].hits = 2
        /\ cOutcome = Returned(cache[i].response)

C17_EvictsFewestHits ==
    InsertedAtCapacity =>
        \E j \in 1..Len(cPrev) :
            /\ EvictedIs(j)
            /\ \A k \in 1..Len(cPrev) : cPrev[j].hits <= cPrev[k].hits

\* C18: the cache never holds more than maxCacheSize entries.
C18_SizeWithinCapacity == Len(cache) <= MaxCacheSize

C18_Witness ==
    /\ InsertedAtCapacity
    /\ Len(cache) = MaxCacheSize
    /\ cCalls > MaxCacheSize

\* C19: when the inner query of a call throws, the call throws that error and
\* the cache is as it was: same entries, same order, same responses,
\* timestamps and hit counters, a stale entry for the call's key included.
C19_FailureLeavesCache ==
    cEv = "failed"
        => /\ cache = cPrev
           /\ cOutcome.type = "error"
           /\ cOutcome.error \in CacheInnerErrors(cOutcome.error.id)

C19_Witness ==
    /\ cEv = "failed"
    /\ cOutcome.type = "error"
    /\ \E i \in 1..Len(cache) :
        /\ cache[i].key = cKey
        /\ ~IsCacheValid(cache[i], cacheNow)
        /\ cache[i].hits >= 1

\* a query text without its leading and trailing blanks, in lower case:
\* the characters from the first to the last that is no blank, each lowered
Normalized(str) ==
    LET ink == {i \in 1..Len(str) : str[i] # " "}
    IN  IF ink = {} THEN << >>
        ELSE LET first == CHOOSE i \in ink : \A j \in ink : i <= j
                 last == CHOOSE i \in ink : \A j \in ink : i >= j
             IN  [i \in 1..(last - first + 1) |->
                    IF str[first + i - 1] = "A" THEN "a" ELSE str[first + i - 1]]

\* C15: two requests with the same corpusId, limit and generateAnswer whose
\* query texts are equal after lower-casing and trimming get the same cache
\* key, and the key of one request computed twice is the same.
C15_NormalizedRequestsCollide ==
    kKeys # << >> =>
        /\ (/\ kParams[1].corpusId = kParams[2].corpusId
            /\ kParams[1].limit = kParams[2].limit
            /\ kParams[1].generateAnswer = kParams[2].generateAnswer
            /\ Normalized(kParams[1].query) = Normalized(kParams[2].query))
              => kKeys[1] = kKeys[2]
        /\ kKeys[1] = kKeys[3]

C15_Witness ==
    /\ kKeys # << >>
    /\ kParams[1].query = <<"A">>
    /\ kParams[2].query = <<" ", "a">>
    /\ kParams[1].limit = <<5>>
    /\ kParams[1].generateAnswer = << >>
    /\ kKeys[1] = kKeys[2]

-----------------------------------------------------------------------------
(* Claims about MonitoredVantigeClient *)

\* C20: once N calls have completed, E of them by throwing, with N at most
\* windowSize and no call pending, errorRate is E / N, whatever was thrown.
C20_ErrorRateIsFailuresOverCalls ==
    (mCompleted > 0 /\ mCompleted <= mWindowSize /\ mPending = {})
        => metrics.errorRate[1] * mCompleted = mFailed * metrics.errorRate[2]

\* C21: getHealthStatus() answers 'healthy' exactly when errorRate < 0.01,
\* 'degraded' exactly when 0.01 <= errorRate < 0.1 and 'unhealthy' exactly
\* when errorRate >= 0.1, and leaves this.metrics as it is.
C21_HealthTiers ==
    mEv = "health" =>
        LET e == mPrev.errorRate[1]
            r == mPrev.errorRate[2]
        IN  /\ (mHealth = "healthy") <=> (100 * e < r)
            /\ (mHealth = "degraded") <=> (100 * e >= r /\ 10 * e < r)
            /\ (mHealth = "unhealthy") <=> (10 * e >= r)
            /\ metrics = mPrev

C21_Witness ==
    /\ mEv = "health"
    /\ metrics.errorRate = <<1, 100>>
    /\ mHealth = "degraded"

\* C22: a call that fails calls every registered callback exactly once, in
\* the order of registration, before it throws; a call that succeeds calls
\* none.
C22_EveryFailureNotifiesAll ==
    /\ mEv = "failure" => mNotified = [i \in 1..Len(mCallbacks) |-> i]
    /\ mEv = "success" => mNotified = << >>

\* the step just taken was a failed call in which a callback that throws
\* was called
ObserverFailed ==
    /\ mEv = "failure"
    /\ \E k \in 1..Len(mNotified) : mCallbacks[mNotified[k]] = "throws"

\* C23: when a callback throws, the callbacks after it are called all the
\* same, the error stays counted in the metrics, and the call throws the error
\* of the inner query, never the one of the callback.
C23_ObserverFailureContained ==
    ObserverFailed =>
        /\ mNotified = [i \in 1..Len(mCallbacks) |-> i]
        /\ mInner.type = "error"
        /\ mOutcome = mInner
        /\ metrics.totalErrors = mPrev.totalErrors + 1
        /\ metrics.errorsByCode[mInner.error.code]
             = mPrev.errorsByCode[mInner.error.code] + 1
        /\ metrics.lastError = [code |-> mInner.error.code, id |-> mInner.error.id]

C23_Witness ==
    /\ ObserverFailed
    /\ mCallbacks = <<"throws", "returns">>
    /\ mNotified = <<1, 2>>
    /\ mCaught = <<1>>
    /\ mOutcome = mInner

-----------------------------------------------------------------------------
(* Claims about the clients wired together *)

\* C24: the cache, on a miss, and the monitor give their caller what their
\* inner client gave them: the same response, or the same error.
C24_OutcomePassedThrough ==
    \A k \in 1..Len(chPassed) :
        chPassed[k].client \in {"cache", "monitor"}
            => /\ chPassed[k].got # Pending
               /\ chPassed[k].gave = chPassed[k].got

C24_Witness ==
    /\ chPc = "done"
    /\ chOutcome.type = "error"
    /\ chOutcome.error.kind = "sdk"
    /\ chBase = 4
    /\ \E k \in 1..Len(chPassed) :
        chPassed[k].client = "cache" /\ chPassed[k].gave = chOutcome
    /\ \E k \in 1..Len(chPassed) :
        chPassed[k].client = "monitor" /\ chPassed[k].gave = chOutcome

\* C25 as stated: the caller's call enters the monitor first, and the client
\* entered last before the base client is the cache.
C25_MonitoringOutermost ==
    /\ chTrace # << >> => chTrace[1] = "monitor"
    /\ \A k \in 2..Len(chTrace) :
        (chTrace[k] = "base" /\ chTrace[k - 1] # "base") => chTrace[k - 1] = "cache"

\* the clients a call enters when all let it through
FromCache == <<"cache", "monitor", "breaker", "retry">>
FromMonitor == <<"monitor", "breaker", "retry">>

\* C25: a call enters the cache, the monitor, the breaker and the retry client
\* in this order, starting with the cache or with the monitor as the caller
\* calls cacheClient or primaryClient, and after the retry client only the
\* base client, once per attempt: the inner client of the cache is the
\* monitor and the base client is the inner client of the retry client.
C25_CacheOutermost ==
    \E order \in {FromCache, FromMonitor} :
        /\ \A k \in 1..Len(chTrace) :
            chTrace[k] = IF k <= Len(order) THEN order[k] ELSE "base"
        /\ chBase = IF Len(chTrace) <= Len(order) THEN 0 ELSE Len(chTrace) - Len(order)

C25_Witness ==
    /\ chPc = "done"
    /\ chOutcome.type = "response"
    /\ chTrace = <<"cache", "monitor", "breaker", "retry", "base", "base">>

\* the call is over, answered by the cache out of a fresh entry
AnsweredByCache ==
    /\ chPc = "done"
    /\ chOutcome.type = "response"
    /\ chTrace[Len(chTrace)] = "cache"

\* C26: a call answered by a fresh cache entry leaves the fields of the
\* breaker and the request and error counters of the monitor as they were,
\* does not enter the retry client and makes no base query.
C26_HitBypassesBookkeeping ==
    AnsweredByCache =>
        /\ cb = chPrev.cb
        /\ mRequests = chPrev.requests
        /\ metrics.totalErrors = chPrev.totalErrors
        /\ \A k \in 1..Len(chTrace) : chTrace[k] # "retry"
        /\ chBase = 0

C26_Witness ==
    /\ AnsweredByCache
    /\ chPrev.requests > 0
    /\ chPrev.totalErrors > 0
    /\ chPrev.cb.failures > 0
    /\ mRequests = chPrev.requests

\* the call has entered the monitor and the breaker
ReachedMonitorAndBreaker ==
    /\ \E k \in 1..Len(chTrace) : chTrace[k] = "monitor"
    /\ \E k \in 1..Len(chTrace) : chTrace[k] = "breaker"

\* C27: a call that reaches the monitor and the breaker counts as one request
\* whatever its number of attempts, and adds at most one error to the monitor
\* and at most one failure to the breaker.
C27_OneLogicalCall ==
    ReachedMonitorAndBreaker =>
        /\ mRequests = chPrev.requests + 1
        /\ metrics.totalErrors <= chPrev.totalErrors + 1
        /\ cb.failures <= chPrev.cb.failures + 1
        /\ chPc = "done" =>
             /\ metrics.totalErrors - chPrev.totalErrors
                  = IF chOutcome.type = "error" /\ chOutcome.error.kind = "sdk" THEN 1 ELSE 0
             /\ Len(SelectSeq(chPassed, LAMBDA p : p.client = "monitor")) = 1
             /\ Len(SelectSeq(chPassed, LAMBDA p : p.client = "breaker")) <= 1

C27_Witness ==
    /\ ReachedMonitorAndBreaker
    /\ chPc = "done"
    /\ chBase = 4
    /\ chOutcome.type = "error"
    /\ mRequests = chPrev.requests + 1
    /\ metrics.totalErrors = chPrev.totalErrors + 1
    /\ cb.failures = chPrev.cb.failures + 1

-----------------------------------------------------------------------------
(* Claims about BatchQueryProcessor.batchQuery (under SpecBatch) *)

\* the calls of this.client.query that have not ended
InFlight == {k \in 1..Len(bCalls) : bCalls[k].status = "pending"}

\* the group of a place of the list: places 1..5, 6..10, ...
GroupOf(position) == (position - 1) \div ConcurrencyLimit

\* C28: the calls are made in the order of the list, in groups of
\* concurrencyLimit places (the last may be shorter); at most concurrencyLimit
\* calls are in flight, and while a call of a group is in flight no call of a
\* later group has been made.
C28_GroupsAwaitedInTurn ==
    /\ Cardinality(InFlight) <= ConcurrencyLimit
    /\ \A k \in 1..Len(bCalls) : bCalls[k].position = k
    /\ \A j \in InFlight, k \in 1..Len(bCalls) :
        GroupOf(bCalls[k].position) <= GroupOf(bCalls[j].position)
    /\ bPc = "awaiting" =>
        /\ Len(bCalls) = Min(bI + ConcurrencyLimit, Len(bQueries))
        /\ InFlight \subseteq (bI + 1)..Len(bCalls)

C28_Witness ==
    /\ bPc = "awaiting"
    /\ Len(bQueries) > ConcurrencyLimit
    /\ \A k \in 1..ConcurrencyLimit : bCalls[k].status # "pending"
    /\ bCalls[2].status = "failed"
    /\ InFlight = {ConcurrencyLimit + 1}

\* the calls made for the query text q that succeeded
Succeeded(q) == {k \in 1..Len(bCalls) : bCalls[k].query = q /\ bCalls[k].status = "ok"}

\* C29: when batchQuery ends it returns a map, every place of the list has
\* been called exactly once with its query and every call has ended; the map
\* has an entry for a query text exactly when one of its calls succeeded, and
\* the entry is the response of such a call.
C29_BestEffortCollection ==
    bPc = "done" =>
        /\ bReturn.type = "map"
        /\ Len(bCalls) = Len(bQueries)
        /\ \A k \in 1..Len(bCalls) :
            /\ bCalls[k].position = k
            /\ bCalls[k].query = bQueries[k]
            /\ bCalls[k].status \in {"ok", "failed"}
        /\ DOMAIN bReturn.map = {q \in BatchTexts : Succeeded(q) # {}}
        /\ \A q \in DOMAIN bReturn.map : bReturn.map[q] \in Succeeded(q)

C29_Witness ==
    /\ bPc = "done"
    /\ Len(bQueries) > ConcurrencyLimit
    /\ bCalls[1].status = "failed"
    /\ bCalls[2].status = "ok"
    /\ bCalls[Len(bCalls)].status = "ok"
    /\ bQueries[1] # bQueries[2]
    /\ bQueries[Len(bQueries)] = bQueries[2]
    /\ DOMAIN bReturn.map = {bQueries[2]}

-----------------------------------------------------------------------------
(* Local failures of the helpers *)

\* C30 (retry half): what the caller receives once the retries are exhausted
\* is not a classified error of the remote operation.
C30_ExhaustionIsDistinct ==
    (/\ rPc = "done"
     /\ rOutcome.type = "error"
     /\ opts.maxRetries >= 1
     /\ rFailures = opts.maxRetries + 1)
        => rOutcome.error.kind # "sdk"

-----------------------------------------------------------------------------
(* Termination of RetryableVantigeClient.query (under SpecRetryLive) *)

\* C31: a call that has been made ends, with a response or with one error and
\* not both, after at most maxRetries + 1 inner queries and at most maxRetries
\* sleeps, whatever the inner queries throw.
C31_CallTerminates ==
    /\ (rPc # "idle") ~> (rPc = "done")
    /\ [](rPc = "done" <=> rOutcome.type \in {"response", "error"})
    /\ [](rInvocations <= opts.maxRetries + 1 /\ rSleeps <= opts.maxRetries)
    /\ [][rPc = "done" => UNCHANGED rOutcome]_vars

C31_Witness ==
    /\ rPc = "done"
    /\ opts.maxRetries >= 2
    /\ rInvocations = opts.maxRetries + 1
    /\ rFailures = rInvocations
    /\ rOutcome.type = "error"

-----------------------------------------------------------------------------
(* Overlapping calls, overwriting and expiry in CachedVantigeClient (under SpecCache) *)

\* C32: no two inner queries for the same cache key are pending at once.
C32_OneInnerCallPerKey ==
    \A a \in cPending, b \in cPending : a.key = b.key => a.id = b.id

\* the keys of the entries of a cache
KeysOf(c) == {c[i].key : i \in 1..Len(c)}

\* C33: when a response is stored for a key of which the full cache holds an
\* expired entry, the cache keeps the entries of all its keys.
C33_OverwriteEvictsNothing ==
    (/\ cEv = "stored"
     /\ Len(cPrev) >= MaxCacheSize
     /\ cKey \in KeysOf(cPrev)
     /\ ~IsCacheValid(cPrev[IndexOf(cPrev, cKey)], cacheNow))
        => KeysOf(cache) = KeysOf(cPrev)

\* C34: once query() has looked an entry up and found none that is fresh, or
\* has stored a response, the cache holds no entry whose age has reached the
\* TTL.
C34_ExpiredEntriesRemoved ==
    cEv \in {"miss", "stored"}
        => \A i \in 1..Len(cache) : IsCacheValid(cache[i], cacheNow)

-----------------------------------------------------------------------------
(* Sleeps of the retry helpers *)

\* C35 (RetryableClient.queryWithRetry): a call that has ended has slept once
\* less than it has called the inner query, none of the sleeps coming after the
\* last inner query.
C35_NoSleepAfterLastAttempt ==
    (qwPc = "done" /\ qwInvocations > 0) => qwSleeps = qwInvocations - 1

-----------------------------------------------------------------------------
(* Rejections and counters of CircuitBreakerClient (under SpecBreaker) *)

\* C36: a call rejected in OPEN comes before resetTimeout has elapsed since
\* the last recorded failure and leaves state, failures, successCount and
\* lastFailureTime as they were, so the rejections do not move the time from
\* which a call is let through.
C36_RejectionChangesNothing ==
    cbEv = "reject"
        => /\ cbPrev.state = "OPEN"
           /\ cb = cbPrev
           /\ now - cb.lastFailureTime[1] < cbOptions.resetTimeout

\* a call rejected some time after the failure that opened the circuit
C36_Witness ==
    /\ cbEv = "reject"
    /\ cb.state = "OPEN"
    /\ cbOptions.resetTimeout = 2
    /\ now - cb.lastFailureTime[1] = 1

\* C37: in CLOSED the failure counter is below failureThreshold; the success
\* counter is below 3, and is zero outside HALF_OPEN.
C37_CountersWithinBounds ==
    /\ cb.state = "CLOSED" => cb.failures < cbOptions.failureThreshold
    /\ cb.successCount < SuccessThreshold
    /\ cb.successCount # 0 => cb.state = "HALF_OPEN"

\* two calls overlap in HALF_OPEN, two successes counted
C37_Witness ==
    /\ cb.state = "HALF_OPEN"
    /\ cb.successCount = 2
    /\ cbInflight = 2

-----------------------------------------------------------------------------
(* Cache keys of different requests (under SpecKey) *)

\* C38: two requests that get the same cache key, the key under which alone
\* query() looks a stored response up, have the same corpusId, limit and
\* generateAnswer, and query texts that are equal once lower-cased and trimmed.
C38_SharedKeyMeansSameRequest ==
    (kKeys # << >> /\ kKeys[1] = kKeys[2])
        => /\ kParams[1].corpusId = kParams[2].corpusId
           /\ kParams[1].limit = kParams[2].limit
           /\ kParams[1].generateAnswer = kParams[2].generateAnswer
           /\ Normalized(kParams[1].query) = Normalized(kParams[2].query)

\* two requests written differently that share a key
C38_Witness ==
    /\ kKeys # << >>
    /\ kKeys[1] = kKeys[2]
    /\ kParams[1].query = <<"A", " ">>
    /\ kParams[2].query = <<"a">>
    /\ kParams[1].limit = <<5>>
    /\ kParams[1].generateAnswer = <<TRUE>>

-----------------------------------------------------------------------------
(* The error rate of MonitoredVantigeClient over time (under SpecMonitor) *)

\* the health status as a rank: the higher, the worse
HealthRank(m) ==
    CASE GetHealthStatus(m) = "healthy" -> 0
      [] GetHealthStatus(m) = "degraded" -> 1
      [] GetHealthStatus(m) = "unhealthy" -> 2

-----------------------------------------------------------------------------
(* The fallbacks of ResilientSearchClient (under SpecResilient) *)

\* the strategies called that failed
FailedStrategies == {k \in 1..Len(sfTried) : sfTried[k].ended = "failed"}

\* C40: searchWithFallback throws nothing; the strategies called are primary,
\* cached, simplified, default in this order, each after the failure of all
\* the ones before it; the result is that of the first strategy that does not
\* fail, which is the last one called; and it is the default response, of
\* confidence 'none', exactly when primary, cached and simplified have failed.
C40_FallbackInOrder ==
    /\ sfResult.type # "error"
    /\ \A k \in 1..Len(sfTried) :
        /\ sfTried[k].strategy = <<"primary", "cached", "simplified", "default">>[k]
        /\ k < Len(sfTried) => sfTried[k].ended = "failed"
    /\ sfPc = "done" =>
        /\ sfResult.type = "result"
        /\ sfTried[Len(sfTried)].ended = "returned"
        /\ sfResult.value.type = sfTried[Len(sfTried)].strategy
        /\ sfResult.value.type = "default" <=> Cardinality(FailedStrategies) = 3
        /\ sfResult.value.confidence = "none" <=> sfResult.value.type = "default"

\* the three searches failed one after the other, the last on the keywords
C40_Witness ==
    /\ sfPc = "done"
    /\ sfHasCache
    /\ Len(sfSent) = 3
    /\ sfSent[3].query = <<"vantige">>
    /\ sfResult = Found(StrategyResult("default", 0))

====
